---- MODULE Spec2Model ----
(***************************************************************************)
(* Model of the healthcare-data gateway of src/index.ts: the three search  *)
(* functions (searchICD10CM, searchNPI, searchMedicare), the raw HTTP       *)
(* listener and the structured tool-call handlers of runServer.            *)
(*                                                                         *)
(* JavaScript values are tagged records V(k, s, n, e):                     *)
(*   k  the kind: "undef" "null" "bool" "num" "nan" "str" "arr" "obj",     *)
(*      "ent" (one key/value entry of an object), "throw" (a thrown        *)
(*      Error, s = <<message>>) and "badjson" (a text JSON.parse rejects); *)
(*   s  the characters of a string (a sequence of one-character strings),  *)
(*      or <<key>> for an entry, or <<message>> for a throw;               *)
(*   n  the integer of a number (numbers are integers or NaN here; a       *)
(*      boolean is 0 or 1);                                                *)
(*   e  the elements of an array, the entries of an object (in insertion   *)
(*      order), or <<value>> for an entry.                                 *)
(***************************************************************************)
EXTENDS Integers, Sequences, FiniteSets, TLC

VARIABLES reqs

vars == <<reqs>>

\* The requests in flight together.
NumReqs == 2

Reqs == 1..NumReqs

(***************************************************************************)
(* JavaScript values                                                       *)
(***************************************************************************)
V(k, s, n, e) == [k |-> k, s |-> s, n |-> n, e |-> e]

Undef == V("undef", <<>>, 0, <<>>)

Null == V("null", <<>>, 0, <<>>)

NaN == V("nan", <<>>, 0, <<>>)

BadJson == V("badjson", <<>>, 0, <<>>)

Bool(b) == V("bool", <<>>, IF b THEN 1 ELSE 0, <<>>)

Num(n) == V("num", <<>>, n, <<>>)

Str(chars) == V("str", chars, 0, <<>>)

Arr(elems) == V("arr", <<>>, 0, elems)

Obj(entries) == V("obj", <<>>, 0, entries)

Ent(key, val) == V("ent", <<key>>, 0, <<val>>)

Throw(msg) == V("throw", <<msg>>, 0, <<>>)

IsThrow(v) == v.k = "throw"

KeyOf(ent) == ent.s[1]

ValOf(ent) == ent.e[1]

\* The keys of an object, in insertion order.
ObjKeys(o) == [i \in 1..Len(o.e) |-> KeyOf(o.e[i])]

HasKey(o, key) == o.k = "obj" /\ \E i \in 1..Len(o.e) : KeyOf(o.e[i]) = key

\* ToBoolean: the test of `if (x)`, `x && y`, `x || y`, `x ? a : b`.
Truthy(v) ==
  CASE v.k \in {"undef", "null", "nan"} -> FALSE
    [] v.k \in {"bool", "num"} -> v.n # 0
    [] v.k = "str" -> v.s # <<>>
    [] OTHER -> TRUE

\* The slip of writing the default as `v || dflt`.
DefaultFalsy(v, dflt) == IF Truthy(v) THEN v ELSE dflt

\* param = dflt in a parameter list: the default replaces undefined only.
Default(v, dflt) == IF v.k = "undef" THEN dflt ELSE v

(***************************************************************************)
(* Numbers and strings                                                     *)
(***************************************************************************)
DigitChars == <<"0", "1", "2", "3", "4", "5", "6", "7", "8", "9">>

RECURSIVE NatChars(_)
NatChars(n) ==
  IF n < 10 THEN <<DigitChars[n + 1]>>
  ELSE NatChars(n \div 10) \o <<DigitChars[(n % 10) + 1]>>

\* Number.prototype.toString() of an integer, as characters.
IntChars(n) == IF n < 0 THEN <<"-">> \o NatChars(0 - n) ELSE NatChars(n)

RECURSIVE NatText(_)
NatText(n) ==
  IF n < 10 THEN DigitChars[n + 1]
  ELSE NatText(n \div 10) \o DigitChars[(n % 10) + 1]

\* The same numeral as one string, for the text of an error message.
IntText(n) == IF n < 0 THEN "-" \o NatText(0 - n) ELSE NatText(n)

RECURSIVE JoinChars(_, _)
\* ToString: what a template literal, URLSearchParams and Array.join apply.
ToStr(v) ==
  CASE v.k = "undef" -> <<"u", "n", "d", "e", "f", "i", "n", "e", "d">>
    [] v.k = "null" -> <<"n", "u", "l", "l">>
    [] v.k = "nan" -> <<"N", "a", "N">>
    [] v.k = "bool" -> IF v.n = 1 THEN <<"t", "r", "u", "e">>
                       ELSE <<"f", "a", "l", "s", "e">>
    [] v.k = "num" -> IntChars(v.n)
    [] v.k = "str" -> v.s
    [] v.k = "arr" -> JoinChars(v.e, 1)
    [] OTHER -> <<"[", "o", "b", "j", "e", "c", "t", " ",
                  "O", "b", "j", "e", "c", "t", "]">>

\* Array.prototype.join(","): null and undefined elements join as "".
JoinChars(elems, i) ==
  IF i > Len(elems) THEN <<>>
  ELSE (IF elems[i].k \in {"undef", "null"} THEN <<>> ELSE ToStr(elems[i]))
       \o (IF i < Len(elems) THEN <<",">> ELSE <<>>)
       \o JoinChars(elems, i + 1)

\* x.toString(): a method call, so null and undefined throw.
CallToString(v) ==
  IF v.k \in {"undef", "null"}
  THEN Throw("TypeError: cannot read properties (reading 'toString')")
  ELSE Str(ToStr(v))

WhiteSpace == {" ", "\t", "\n"}

RECURSIVE SkipSpace(_)
SkipSpace(chars) ==
  IF chars # <<>> /\ Head(chars) \in WhiteSpace THEN SkipSpace(Tail(chars))
  ELSE chars

DigitVal(c) ==
  CASE c = "0" -> 0 [] c = "1" -> 1 [] c = "2" -> 2 [] c = "3" -> 3
    [] c = "4" -> 4 [] c = "5" -> 5 [] c = "6" -> 6 [] c = "7" -> 7
    [] c = "8" -> 8 [] c = "9" -> 9
    [] c \in {"a", "A"} -> 10 [] c \in {"b", "B"} -> 11
    [] c \in {"c", "C"} -> 12 [] c \in {"d", "D"} -> 13
    [] c \in {"e", "E"} -> 14 [] c \in {"f", "F"} -> 15
    [] OTHER -> 99

RECURSIVE DigitRun(_, _, _)
\* The value of the longest prefix of digits of the radix: <<digits read, value>>.
DigitRun(chars, radix, acc) ==
  IF chars # <<>> /\ DigitVal(Head(chars)) < radix
  THEN LET rest == DigitRun(Tail(chars), radix, acc * radix + DigitVal(Head(chars)))
       IN  <<rest[1] + 1, rest[2]>>
  ELSE <<0, acc>>

\* -n when neg, n otherwise; NaN when no digit was read.
SignedRun(neg, run) ==
  IF run[1] = 0 THEN NaN ELSE Num(IF neg THEN 0 - run[2] ELSE run[2])

\* The numeral after the sign: 0x starts a hexadecimal one.
ParseUnsigned(neg, u) ==
  IF Len(u) >= 2 /\ u[1] = "0" /\ u[2] \in {"x", "X"}
  THEN SignedRun(neg, DigitRun(Tail(Tail(u)), 16, 0))
  ELSE SignedRun(neg, DigitRun(u, 10, 0))

ParseSigned(t) ==
  ParseUnsigned(t # <<>> /\ Head(t) = "-",
                IF t # <<>> /\ Head(t) \in {"-", "+"} THEN Tail(t) ELSE t)

\* parseInt(x): ToString, leading white space, a sign, an optional 0x, then
\* the longest run of digits; NaN when there is none.
ParseInt(v) == ParseSigned(SkipSpace(ToStr(v)))

RECURSIVE TrimRight(_)
TrimRight(chars) ==
  IF chars # <<>> /\ chars[Len(chars)] \in WhiteSpace
  THEN TrimRight(SubSeq(chars, 1, Len(chars) - 1))
  ELSE chars

\* A whole text as a decimal numeral: NaN unless every character is a digit.
WholeRun(neg, u, run) ==
  IF u # <<>> /\ run[1] = Len(u) THEN SignedRun(neg, run) ELSE NaN

WholeUnsigned(neg, u) == WholeRun(neg, u, DigitRun(u, 10, 0))

\* StringToNumber of a trimmed text: empty is 0, a signed decimal numeral is
\* its value, every other text is NaN.
StringToNumber(t) ==
  IF t = <<>> THEN Num(0)
  ELSE WholeUnsigned(Head(t) = "-", IF Head(t) \in {"-", "+"} THEN Tail(t) ELSE t)

\* ToNumber, the coercion Math.min applies to its arguments.
ToNumber(v) ==
  CASE v.k \in {"num", "nan"} -> v
    [] v.k = "bool" -> Num(v.n)
    [] v.k = "null" -> Num(0)
    [] v.k = "undef" -> NaN
    [] v.k \in {"str", "arr"} -> StringToNumber(TrimRight(SkipSpace(ToStr(v))))
    [] OTHER -> NaN

\* The smaller of two numbers: NaN when either is NaN.
MinNumber(x, y) ==
  IF x.k = "nan" \/ y.k = "nan" THEN NaN
  ELSE IF x.n <= y.n THEN x ELSE y

\* Math.min(a, b)
MathMin(a, b) == MinNumber(ToNumber(a), ToNumber(b))

(***************************************************************************)
(* Property access, objects and JSON                                       *)
(***************************************************************************)
RECURSIVE Lookup(_, _, _)
Lookup(entries, key, i) ==
  IF i > Len(entries) THEN Undef
  ELSE IF KeyOf(entries[i]) = key THEN ValOf(entries[i])
  ELSE Lookup(entries, key, i + 1)

\* x.key and x?.key for a named property: undefined and null throw (x.key) or
\* give undefined (x?.key); an object gives the property; an array or a
\* string gives its length; anything else has no such property.
GetProp(v, key) ==
  CASE v.k \in {"undef", "null"} ->
         Throw("TypeError: cannot read properties (reading '" \o key \o "')")
    [] v.k = "obj" -> Lookup(v.e, key, 1)
    [] v.k = "arr" /\ key = "length" -> Num(Len(v.e))
    [] v.k = "str" /\ key = "length" -> Num(Len(v.s))
    [] OTHER -> Undef

\* x[i] for an index i >= 0 (0-based, as in the source).
GetIdx(v, i) ==
  CASE v.k \in {"undef", "null"} ->
         Throw("TypeError: cannot read properties (reading '" \o IntText(i) \o "')")
    [] v.k = "arr" -> IF i < Len(v.e) THEN v.e[i + 1] ELSE Undef
    [] v.k = "str" -> IF i < Len(v.s) THEN Str(<<v.s[i + 1]>>) ELSE Undef
    [] v.k = "obj" -> Lookup(v.e, IntText(i), 1)
    [] OTHER -> Undef

\* x?.[i]: undefined instead of a TypeError when x is undefined or null.
GetIdxOpt(v, i) == IF v.k \in {"undef", "null"} THEN Undef ELSE GetIdx(v, i)

\* Array.isArray(x)
IsArray(v) == v.k = "arr"

\* Object.entries(x): the entries of an object, <<index, element>> for an
\* array, <<index, character>> for a string, none for a number or boolean.
ObjectEntries(v) ==
  CASE v.k = "obj" -> v.e
    [] v.k = "arr" -> [i \in 1..Len(v.e) |-> Ent(IntText(i - 1), v.e[i])]
    [] v.k = "str" -> [i \in 1..Len(v.s) |-> Ent(IntText(i - 1), Str(<<v.s[i]>>))]
    [] OTHER -> <<>>

\* result[field] = value: replaces the value of an existing key in place,
\* appends a new key.
SetProp(o, key, val) ==
  IF \E i \in 1..Len(o.e) : KeyOf(o.e[i]) = key
  THEN Obj([i \in 1..Len(o.e) |->
              IF KeyOf(o.e[i]) = key THEN Ent(key, val) ELSE o.e[i]])
  ELSE Obj(Append(o.e, Ent(key, val)))

RECURSIVE SelectEntries(_)
\* The entries JSON.stringify writes: those whose value is not undefined.
SelectEntries(entries) ==
  IF entries = <<>> THEN <<>>
  ELSE IF ValOf(Head(entries)).k = "undef" THEN SelectEntries(Tail(entries))
  ELSE <<Head(entries)>> \o SelectEntries(Tail(entries))

RECURSIVE ToJSON(_)
\* The entries JSON.stringify writes, each value as its JSON value.
JSONEntries(kept) == [i \in 1..Len(kept) |-> Ent(KeyOf(kept[i]), ToJSON(ValOf(kept[i])))]

\* The JSON value JSON.stringify(x) denotes: a key whose value is undefined
\* is left out, undefined in an array and NaN become null.
ToJSON(v) ==
  CASE v.k = "obj" -> Obj(JSONEntries(SelectEntries(v.e)))
    [] v.k = "arr" ->
         Arr([i \in 1..Len(v.e) |->
                IF v.e[i].k = "undef" THEN Null ELSE ToJSON(v.e[i])])
    [] v.k = "nan" -> Null
    [] OTHER -> v

\* JSON.stringify(x, null, indent): the text, as the JSON value it denotes
\* and the indentation it is written with.
JSONStringify(v, indent) == [json |-> ToJSON(v), indent |-> indent]

\* The slip of reading a text that is no JSON as an empty object.
JSONParseLenient(body) == IF body.k = "badjson" THEN Obj(<<>>) ELSE body

\* JSON.parse(text) of a body: the value, or a SyntaxError.
JSONParse(body) ==
  IF body.k = "badjson" THEN Throw("SyntaxError: Unexpected token in JSON")
  ELSE body

(***************************************************************************)
(* The upstream exchange. A call is [k, api, dataset, query]: the base URL  *)
(* goes to, the dataset of the path (claims API only) and the              *)
(* URLSearchParams list, an ordered list of name/value entries whose       *)
(* values are strings. A reply is [net, status, body]: net = "error" is a  *)
(* fetch that rejects; otherwise the HTTP status and the body text, given  *)
(* as the JSON value it denotes or BadJson.                                *)
(***************************************************************************)
Param(name, chars) == Ent(name, Str(chars))

RECURSIVE FirstThrow(_)
\* The first thrown error among the values of a sequence, evaluated in order.
FirstThrow(vals) ==
  IF vals = <<>> THEN Undef
  ELSE IF IsThrow(Head(vals)) THEN Head(vals)
  ELSE FirstThrow(Tail(vals))

\* response.ok of node-fetch: a 2xx status.
ResponseOk(reply) == reply.status >= 200 /\ reply.status <= 299

\* await fetch(url): rejects on a network failure.
Fetch(reply) ==
  IF reply.net = "error" THEN Throw("FetchError: request to upstream failed")
  ELSE Undef

(***************************************************************************)
(* searchICD10CM and searchNPI                                             *)
(***************************************************************************)
S_code_name == <<"c", "o", "d", "e", ",", "n", "a", "m", "e">>

S_code == <<"c", "o", "d", "e">>

S_npi_fields == <<"N", "P", "I", ",", "n", "a", "m", "e", ".", "f", "u", "l", "l", ",", "p", "r", "o", "v", "i", "d", "e", "r", "_", "t", "y", "p", "e", ",", "a", "d", "d", "r", "_", "p", "r", "a", "c", "t", "i", "c", "e", ".", "f", "u", "l", "l">>

S_NPI == <<"N", "P", "I">>

\* Either the first thrown error among vals, or the value.
OrThrow(vals, value) == IF IsThrow(FirstThrow(vals)) THEN FirstThrow(vals) ELSE value

\* The upstream call of a query, or the error building the query threw.
CallOf(api, dataset, query) ==
  IF IsThrow(query) THEN query
  ELSE [k |-> "call", api |-> api, dataset |-> dataset, query |-> query.e]

\* The seven parameters every table search sends.
TableParams(terms, maxList, count, offset, df, sf, cf) ==
  OrThrow(<<maxList, count, offset>>,
          Arr(<<Param("terms", ToStr(terms)),
                Param("maxList", maxList.s),
                Param("count", count.s),
                Param("offset", offset.s),
                Param("df", ToStr(df)),
                Param("sf", ToStr(sf)),
                Param("cf", ToStr(cf))>>))

\* if (x) query.append(name, x): the parameters this appends.
AppendIf(name, val) == IF Truthy(val) THEN <<Param(name, ToStr(val))>> ELSE <<>>

\* The query with the optional q and ef appended.
WithOptional(params, q, ef) ==
  IF IsThrow(params) THEN params
  ELSE Arr(params.e \o AppendIf("q", q) \o AppendIf("ef", ef))

\* The URLSearchParams both table searches build; a is the argument list
\* <<terms, maxList, count, offset, q, df, sf, cf, ef>> with the defaults of
\* the parameter list already applied.
TableQuery(a) ==
  WithOptional(TableParams(a[1], CallToString(a[2]), CallToString(a[3]),
                           CallToString(a[4]), a[6], a[7], a[8]),
               a[5], a[9])

\* searchICD10CM up to its fetch: the upstream call, or the error thrown.
searchICD10CMCall(a) ==
  CallOf("icd10cm", "",
         TableQuery(<<a[1], Default(a[2], Num(500)), Default(a[3], Num(500)),
                      Default(a[4], Num(0)), a[5], Default(a[6], Str(S_code_name)),
                      Default(a[7], Str(S_code_name)), Default(a[8], Str(S_code)),
                      a[9]>>))

\* searchNPI up to its fetch.
searchNPICall(a) ==
  CallOf("npi_org", "",
         TableQuery(<<a[1], Default(a[2], Num(500)), Default(a[3], Num(500)),
                      Default(a[4], Num(0)), a[5], Default(a[6], Str(S_npi_fields)),
                      Default(a[7], Str(S_npi_fields)), Default(a[8], Str(S_NPI)),
                      a[9]>>))

\* x ? x : {} for a value that may be a thrown error.
OrEmptyObject(v) == IF IsThrow(v) \/ Truthy(v) THEN v ELSE Obj(<<>>)

\* The slip of taking data[2] whether or not ef was asked for.
ExtraFieldsAlways(ef, data) == OrEmptyObject(GetIdx(data, 2))

\* if (ef && data[2]) extraFields = data[2]; otherwise {}.
ExtraFields(ef, data) ==
  IF Truthy(ef) THEN OrEmptyObject(GetIdx(data, 2)) ELSE Obj(<<>>)

\* result[field] = values[index], or the TypeError of values[index].
AttachOne(result, field, val) ==
  IF IsThrow(result) THEN result
  ELSE IF IsThrow(val) THEN val
  ELSE SetProp(result, field, val)

\* The slip of reading the value of the next row.
ValueAtNext(values, index) == GetIdx(values, index + 1)

\* values[index]
ValueAt(values, index) == GetIdx(values, index)

RECURSIVE AttachExtra(_, _, _, _)
\* for (const [field, values] of Object.entries(extraFields))
\*   result[field] = values[index];
AttachExtra(result, entries, index, j) ==
  IF j > Len(entries) THEN result
  ELSE AttachExtra(AttachOne(result, KeyOf(entries[j]), ValueAt(ValOf(entries[j]), index)),
                   entries, index, j + 1)

\* Array.isArray(row) ? row[1] : undefined
NameOf(row) == IF IsArray(row) THEN GetIdx(row, 1) ELSE Undef

\* The callback of data[1].map in searchICD10CM, for the id at index.
CodeItem(data, extraFields, code, index) ==
  AttachExtra(Obj(<<Ent("code", code),
                    Ent("name", NameOf(GetIdxOpt(GetIdx(data, 3), index)))>>),
              ObjectEntries(extraFields), index, 1)

\* x || '' of the provider mapper.
OrEmpty(v) == IF Truthy(v) THEN v ELSE Str(<<>>)

\* data[3]?.[index] || []
DisplayData(row) == IF Truthy(row) THEN row ELSE Arr(<<>>)

\* The object the provider callback starts from.
ProviderFixed(npi, displayData) ==
  Obj(<<Ent("npi", npi),
        Ent("name", OrEmpty(GetIdx(displayData, 1))),
        Ent("type", OrEmpty(GetIdx(displayData, 2))),
        Ent("address", OrEmpty(GetIdx(displayData, 3)))>>)

\* The callback of data[1].map in searchNPI.
ProviderItem(data, extraFields, npi, index) ==
  AttachExtra(ProviderFixed(npi, DisplayData(GetIdxOpt(GetIdx(data, 3), index))),
              ObjectEntries(extraFields), index, 1)

\* The items of a map, or the first error its callback threw.
ItemsOrThrow(items) == OrThrow(items, Arr(items))

\* data[1].map(callback): a TypeError unless ids = data[1] is an array.
MapArray(ids, data, extraFields, tool) ==
  IF IsThrow(ids) THEN ids
  ELSE IF ids.k \in {"undef", "null"}
       THEN Throw("TypeError: cannot read properties (reading 'map')")
  ELSE IF ~IsArray(ids) THEN Throw("TypeError: data[1].map is not a function")
  ELSE ItemsOrThrow([i \in 1..Len(ids.e) |->
                       IF tool = "icd10cm"
                       THEN CodeItem(data, extraFields, ids.e[i], i - 1)
                       ELSE ProviderItem(data, extraFields, ids.e[i], i - 1)])

MapIds(data, extraFields, tool) == MapArray(GetIdx(data, 1), data, extraFields, tool)

\* { total: data[0], <listKey>: items }, unless something threw before.
TableReturn(data, extraFields, items, listKey) ==
  IF IsThrow(extraFields) THEN extraFields
  ELSE IF IsThrow(items) THEN items
  ELSE Obj(<<Ent("total", GetIdx(data, 0)), Ent(listKey, items)>>)

\* The search from the parsed body on.
TableMap(ef, data, extraFields, tool, listKey) ==
  IF IsThrow(data) THEN data
  ELSE TableReturn(data, extraFields, MapIds(data, extraFields, tool), listKey)

\* The fetch's rejection, or what follows it.
AfterFetch(fetched, rest) == IF IsThrow(fetched) THEN fetched ELSE rest

\* The part of a table search after its fetch: parse, extra fields, map.
TableParsed(ef, data, tool, listKey) ==
  TableMap(ef, data, ExtraFields(ef, data), tool, listKey)

TableResult(ef, reply, tool, listKey) ==
  AfterFetch(Fetch(reply), TableParsed(ef, JSONParse(reply.body), tool, listKey))

\* searchICD10CM from the upstream reply on: the result, or the error thrown.
searchICD10CMResult(a, reply) == TableResult(a[9], reply, "icd10cm", "codes")

\* searchNPI from the upstream reply on.
searchNPIResult(a, reply) == TableResult(a[9], reply, "npi_org", "providers")

(***************************************************************************)
(* searchMedicare                                                          *)
(***************************************************************************)
S_geography_and_service == <<"g", "e", "o", "g", "r", "a", "p", "h", "y", "_", "a", "n", "d", "_", "s", "e", "r", "v", "i", "c", "e">>

S_provider_and_service == <<"p", "r", "o", "v", "i", "d", "e", "r", "_", "a", "n", "d", "_", "s", "e", "r", "v", "i", "c", "e">>

S_provider == <<"p", "r", "o", "v", "i", "d", "e", "r">>

S_desc == <<"d", "e", "s", "c">>

\* x === "text": a string with exactly these characters.
StrictEq(v, chars) == v.k = "str" /\ v.s = chars

\* The dataset of the URL path.
DatasetUuid(dataset_type) ==
  IF StrictEq(dataset_type, S_geography_and_service)
  THEN "ddee9e22-7889-4bef-975a-7853e4cd0fbb"
  ELSE IF StrictEq(dataset_type, S_provider_and_service)
  THEN "0e9f2f2b-7bf9-451a-912c-e02e654dd725"
  ELSE "8889d81e-2ee7-448f-8713-f071038289b5"

\* The three appends of one column filter.
Filter(slot, path, val) ==
  <<Param("filter[" \o slot \o "][condition][path]", path),
    Param("filter[" \o slot \o "][condition][operator]", <<"=">>),
    Param("filter[" \o slot \o "][condition][value]", ToStr(val))>>

\* The slip of appending a filter whatever the dataset.
FilterIfAlways(cond, slot, path, val) ==
  IF Truthy(val) THEN Filter(slot, path, val) ELSE <<>>

\* if (cond && x) { the three appends }: the parameters this appends.
FilterIf(cond, slot, path, val) ==
  IF cond /\ Truthy(val) THEN Filter(slot, path, val) ELSE <<>>

\* The slip of sending the field without the direction.
SortValueNoPrefix(sort) == ToStr(GetProp(sort, "field"))

\* `${sort.direction === 'desc' ? '-' : ''}${sort.field}`
SortValue(sort) ==
  (IF StrictEq(GetProp(sort, "direction"), S_desc) THEN <<"-">> ELSE <<>>)
  \o ToStr(GetProp(sort, "field"))

\* if (sort) query.append("sort", ...): the parameters this appends.
SortIf(sort) == IF Truthy(sort) THEN <<Param("sort", SortValue(sort))>> ELSE <<>>

\* The slip of sending the size as asked.
ClampSizeNone(size) == ToNumber(size)

\* Math.min(size, 5000)
ClampSize(size) == MathMin(size, Num(5000))

\* new URLSearchParams({ size, offset }), or the error offset.toString() threw.
SizeOffset(size, offset) ==
  IF IsThrow(offset) THEN offset
  ELSE Arr(<<Param("size", ToStr(size)), Param("offset", offset.s)>>)

\* The query with everything the ifs append.
WithAppended(params, appended) ==
  IF IsThrow(params) THEN params ELSE Arr(params.e \o appended)

\* The URLSearchParams of searchMedicare; a is the argument list
\* <<dataset_type, hcpcs_code, geo_level, geo_code, place_of_service, size,
\*   offset, keyword, sort>> with the defaults already applied.
MedicareQuery(a) ==
  WithAppended(
    SizeOffset(ClampSize(a[6]), CallToString(a[7])),
    AppendIf("keyword", a[8])
    \o FilterIf(~StrictEq(a[1], S_provider), "filter-1",
                <<"H", "C", "P", "C", "S", "_", "C", "d">>, a[2])
    \o FilterIf(StrictEq(a[1], S_geography_and_service), "filter-2",
                <<"R", "n", "d", "r", "n", "g", "_", "P", "r", "v", "d", "r", "_", "G", "e", "o", "_", "L", "v", "l">>, a[3])
    \o FilterIf(StrictEq(a[1], S_geography_and_service), "filter-3",
                <<"R", "n", "d", "r", "n", "g", "_", "P", "r", "v", "d", "r", "_", "G", "e", "o", "_", "C", "d">>, a[4])
    \o FilterIf(~StrictEq(a[1], S_provider), "filter-4",
                <<"P", "l", "a", "c", "e", "_", "O", "f", "_", "S", "r", "v", "c">>, a[5])
    \o SortIf(a[9]))

\* searchMedicare up to its fetch: the upstream call, or the error thrown.
searchMedicareCall(a) ==
  CallOf("cms", DatasetUuid(Default(a[1], Str(S_geography_and_service))),
         MedicareQuery(<<Default(a[1], Str(S_geography_and_service)), a[2], a[3], a[4],
                         a[5], Default(a[6], Num(10)), Default(a[7], Num(0)), a[8],
                         a[9]>>))

\* The field tables of the three variants: <<output key, how, upstream key>>;
\* how is "copy", "int" (parseInt) or "name" (the provider_name template).
ProviderFields ==
  <<<<"npi", "copy", "Rndrng_NPI">>,
    <<"provider_name", "name", "">>,
    <<"provider_type", "copy", "Rndrng_Prvdr_Type">>,
    <<"provider_address", "copy", "Rndrng_Prvdr_St1">>,
    <<"provider_city", "copy", "Rndrng_Prvdr_City">>,
    <<"provider_state", "copy", "Rndrng_Prvdr_State_Abrvtn">>,
    <<"provider_zip", "copy", "Rndrng_Prvdr_Zip5">>,
    <<"provider_country", "copy", "Rndrng_Prvdr_Cntry">>,
    <<"medicare_participating", "copy", "Rndrng_Prvdr_Mdcr_Prtcptg_Ind">>,
    <<"total_hcpcs_codes", "int", "Tot_HCPCS_Cds">>,
    <<"total_beneficiaries", "copy", "Tot_Benes">>,
    <<"total_services", "copy", "Tot_Srvcs">>,
    <<"total_submitted_charges", "copy", "Tot_Sbmtd_Chrg">>,
    <<"total_medicare_allowed", "copy", "Tot_Mdcr_Alowd_Amt">>,
    <<"total_medicare_payment", "copy", "Tot_Mdcr_Pymt_Amt">>,
    <<"total_medicare_standardized", "copy", "Tot_Mdcr_Stdzd_Amt">>,
    <<"beneficiary_average_age", "copy", "Bene_Avg_Age">>,
    <<"beneficiary_age_lt_65", "copy", "Bene_Age_LT_65_Cnt">>,
    <<"beneficiary_age_65_74", "copy", "Bene_Age_65_74_Cnt">>,
    <<"beneficiary_age_75_84", "copy", "Bene_Age_75_84_Cnt">>,
    <<"beneficiary_age_gt_84", "copy", "Bene_Age_GT_84_Cnt">>,
    <<"beneficiary_female_count", "copy", "Bene_Feml_Cnt">>,
    <<"beneficiary_male_count", "copy", "Bene_Male_Cnt">>,
    <<"beneficiary_race_white", "copy", "Bene_Race_Wht_Cnt">>,
    <<"beneficiary_race_black", "copy", "Bene_Race_Black_Cnt">>,
    <<"beneficiary_race_api", "copy", "Bene_Race_API_Cnt">>,
    <<"beneficiary_race_hispanic", "copy", "Bene_Race_Hspnc_Cnt">>,
    <<"beneficiary_race_native", "copy", "Bene_Race_NatInd_Cnt">>,
    <<"beneficiary_race_other", "copy", "Bene_Race_Othr_Cnt">>,
    <<"beneficiary_dual_count", "copy", "Bene_Dual_Cnt">>,
    <<"beneficiary_non_dual_count", "copy", "Bene_Ndual_Cnt">>,
    <<"beneficiary_average_risk_score", "copy", "Bene_Avg_Risk_Scre">>>>

GeographyFields ==
  <<<<"hcpcs_code", "copy", "HCPCS_Cd">>,
    <<"hcpcs_desc", "copy", "HCPCS_Desc">>,
    <<"hcpcs_drug_ind", "copy", "HCPCS_Drug_Ind">>,
    <<"place_of_service", "copy", "Place_Of_Srvc">>,
    <<"total_beneficiaries", "copy", "Tot_Benes">>,
    <<"total_services", "copy", "Tot_Srvcs">>,
    <<"total_beneficiary_days", "copy", "Tot_Bene_Day_Srvcs">>,
    <<"avg_submitted_charge", "copy", "Avg_Sbmtd_Chrg">>,
    <<"avg_medicare_allowed", "copy", "Avg_Mdcr_Alowd_Amt">>,
    <<"avg_medicare_payment", "copy", "Avg_Mdcr_Pymt_Amt">>,
    <<"avg_medicare_standardized", "copy", "Avg_Mdcr_Stdzd_Amt">>,
    <<"geo_level", "copy", "Rndrng_Prvdr_Geo_Lvl">>,
    <<"geo_code", "copy", "Rndrng_Prvdr_Geo_Cd">>,
    <<"geo_desc", "copy", "Rndrng_Prvdr_Geo_Desc">>,
    <<"total_providers", "copy", "Tot_Rndrng_Prvdrs">>>>

ProviderServiceFields ==
  <<<<"hcpcs_code", "copy", "HCPCS_Cd">>,
    <<"hcpcs_desc", "copy", "HCPCS_Desc">>,
    <<"hcpcs_drug_ind", "copy", "HCPCS_Drug_Ind">>,
    <<"place_of_service", "copy", "Place_Of_Srvc">>,
    <<"total_beneficiaries", "copy", "Tot_Benes">>,
    <<"total_services", "copy", "Tot_Srvcs">>,
    <<"total_beneficiary_days", "copy", "Tot_Bene_Day_Srvcs">>,
    <<"avg_submitted_charge", "copy", "Avg_Sbmtd_Chrg">>,
    <<"avg_medicare_allowed", "copy", "Avg_Mdcr_Alowd_Amt">>,
    <<"avg_medicare_payment", "copy", "Avg_Mdcr_Pymt_Amt">>,
    <<"avg_medicare_standardized", "copy", "Avg_Mdcr_Stdzd_Amt">>,
    <<"npi", "copy", "Rndrng_NPI">>,
    <<"provider_name", "name", "">>,
    <<"provider_type", "copy", "Rndrng_Prvdr_Type">>,
    <<"provider_address", "copy", "Rndrng_Prvdr_St1">>,
    <<"provider_city", "copy", "Rndrng_Prvdr_City">>,
    <<"provider_state", "copy", "Rndrng_Prvdr_State_Abrvtn">>,
    <<"provider_zip", "copy", "Rndrng_Prvdr_Zip5">>,
    <<"provider_country", "copy", "Rndrng_Prvdr_Cntry">>,
    <<"medicare_participating", "copy", "Rndrng_Prvdr_Mdcr_Prtcptg_Ind">>>>

\* ${MI ? ` ${MI}` : ''}
MiddleInitial(mi) == IF Truthy(mi) THEN <<" ">> \o ToStr(mi) ELSE <<>>

\* `${Last_Org_Name}, ${First_Name}${MI ? ` ${MI}` : ''}`
ProviderName(item) ==
  Str(ToStr(GetProp(item, "Rndrng_Prvdr_Last_Org_Name")) \o <<",", " ">>
      \o ToStr(GetProp(item, "Rndrng_Prvdr_First_Name"))
      \o MiddleInitial(GetProp(item, "Rndrng_Prvdr_MI")))

\* The table the map callback follows for a dataset_type.
FieldTable(dataset_type) ==
  IF StrictEq(dataset_type, S_provider) THEN ProviderFields
  ELSE IF StrictEq(dataset_type, S_geography_and_service) THEN GeographyFields
  ELSE ProviderServiceFields

\* The slip of copying every field except the name, parseInt left out.
FieldValueNoParse(how, key, item) ==
  IF how = "name" THEN ProviderName(item) ELSE GetProp(item, key)

\* One output field of the map callback.
FieldValue(how, key, item) ==
  CASE how = "name" -> ProviderName(item)
    [] how = "int" -> ParseInt(GetProp(item, key))
    [] OTHER -> GetProp(item, key)

\* The object the callback returns for a table of fields.
ItemOf(fields, item) ==
  IF item.k \in {"undef", "null"} THEN GetProp(item, fields[1][3])
  ELSE Obj([i \in 1..Len(fields) |->
              Ent(fields[i][1], FieldValue(fields[i][2], fields[i][3], item))])

\* The callback of data.map in searchMedicare: reading a property of a null
\* item throws.
MedicareItem(dataset_type, item) == ItemOf(FieldTable(dataset_type), item)

\* await response.json(): the parsed body.
ResponseJson(reply) == JSONParse(reply.body)

\* The slip of reading the total as the table searches do, from data[0].
MedicareTotalFirst(data) == GetIdx(data, 0)

\* total: data.length
MedicareTotal(data) == GetProp(data, "length")

\* { total, providers }, unless reading data.length or the map threw.
MedicareReturn(total, items) ==
  IF IsThrow(total) THEN total
  ELSE IF IsThrow(items) THEN items
  ELSE Obj(<<Ent("total", total), Ent("providers", items)>>)

\* data.map(callback): a TypeError unless data is an array.
MedicareMap(dataset_type, data) ==
  IF ~IsArray(data) THEN Throw("TypeError: data.map is not a function")
  ELSE ItemsOrThrow([i \in 1..Len(data.e) |-> MedicareItem(dataset_type, data.e[i])])

\* The search from the parsed body on.
MedicareParsed(dataset_type, data) ==
  IF IsThrow(data) THEN data
  ELSE MedicareReturn(MedicareTotal(data), MedicareMap(dataset_type, data))

\* if (!response.ok) throw new Error(`HTTP error! status: ${response.status}`)
CheckOk(reply, rest) ==
  IF ~ResponseOk(reply) THEN Throw("HTTP error! status: " \o IntText(reply.status))
  ELSE rest

\* searchMedicare from the upstream reply on: the result, or the error thrown.
searchMedicareResult(a, reply) ==
  AfterFetch(Fetch(reply),
             CheckOk(reply,
                     MedicareParsed(Default(a[1], Str(S_geography_and_service)),
                                    ResponseJson(reply))))

(***************************************************************************)
(* The two transports. reqs[r] is one inbound request:                     *)
(*   pc        "idle" (not yet received), "body" (the HTTP listener awaits *)
(*             the end of the body), "fetch" (the search function awaits   *)
(*             its upstream call), "done" (answered);                      *)
(*   transport "http" or "mcp"; method, url: the HTTP request line, or     *)
(*             url = the tool name of a tool call;                         *)
(*   data      the HTTP body as sent, or the arguments of a tool call;     *)
(*   call, calls  the upstream call issued and how many were issued;       *)
(*   reply     the upstream reply received;                                *)
(*   result    what the search function returned or threw;                 *)
(*   resp, writes  the answer and how many times one was written.          *)
(***************************************************************************)
NoCall == [k |-> "call", api |-> "", dataset |-> "", query |-> <<>>]

NoReply == [net |-> "", status |-> 0, body |-> Undef]

NoText == [json |-> Undef, indent |-> 0]

NoResp == [kind |-> "none", status |-> 0, text |-> NoText, error |-> "", code |-> 0,
           tools |-> <<>>]

Idle == [pc |-> "idle", transport |-> "", method |-> "", url |-> "", data |-> Undef,
         call |-> NoCall, calls |-> 0, reply |-> NoReply, result |-> Undef,
         resp |-> NoResp, writes |-> 0]

TableArgNames == <<"terms", "maxList", "count", "offset", "q", "df", "sf", "cf", "ef">>

MedicareArgNames == <<"dataset_type", "hcpcs_code", "geo_level", "geo_code",
                      "place_of_service", "size", "offset", "keyword", "sort">>

\* The argument list of a call f(data.x, data.y, ...): reading a property of
\* null or undefined throws before f is entered.
ReadArgs(data, names) ==
  IF data.k \in {"undef", "null"} THEN GetProp(data, names[1])
  ELSE Arr([i \in 1..Len(names) |-> GetProp(data, names[i])])

\* sendError(res, message, code): writeHead(code) and the body {error, code}.
sendError(message, code) ==
  [kind |-> "error", status |-> code, text |-> NoText, error |-> message, code |-> code,
   tools |-> <<>>]

\* res.writeHead(200); res.end(JSON.stringify(result)).
HttpOk(kind, result, tools) ==
  [kind |-> kind, status |-> 200, text |-> JSONStringify(result, 0), error |-> "",
   code |-> 0, tools |-> tools]

\* err instanceof Error ? err.message : String(err)
ErrorMessage(thrown) == thrown.s[1]

\* The slip of passing data.ef where q goes and data.q where ef goes.
HttpArgNamesSwapped(url) ==
  IF url = "/cms_search_providers" THEN MedicareArgNames
  ELSE <<"terms", "maxList", "count", "offset", "ef", "df", "sf", "cf", "q">>

\* The properties of the body the HTTP router passes, in argument order.
HttpArgNames(url) ==
  IF url = "/cms_search_providers" THEN MedicareArgNames ELSE TableArgNames

\* The search function called on the argument list, up to its fetch.
SearchCall(api, args) ==
  IF IsThrow(args) THEN args
  ELSE CASE api = "icd10cm" -> searchICD10CMCall(args.e)
         [] api = "npi_org" -> searchNPICall(args.e)
         [] OTHER -> searchMedicareCall(args.e)

\* The same call from its upstream reply on.
SearchResult(api, args, reply) ==
  CASE api = "icd10cm" -> searchICD10CMResult(args.e, reply)
    [] api = "npi_org" -> searchNPIResult(args.e, reply)
    [] OTHER -> searchMedicareResult(args.e, reply)

\* The slip of a route for a path that names no tool.
HttpToolPathsWithOld ==
  {"/nlm_search_icd10", "/nlm_search_npi_providers", "/cms_search_providers",
   "/search_icd10cm_codes"}

\* The paths the router has a branch for.
HttpToolPaths == {"/nlm_search_icd10", "/nlm_search_npi_providers", "/cms_search_providers"}

\* The search function the HTTP router picks for a path.
HttpRoute(url) ==
  CASE url = "/nlm_search_icd10" -> "icd10cm"
    [] url = "/nlm_search_npi_providers" -> "npi_org"
    [] url = "/cms_search_providers" -> "cms"
    [] OTHER -> ""

\* The search function the HTTP router calls for a path, up to its fetch.
HttpSearchCall(url, data) ==
  SearchCall(HttpRoute(url), ReadArgs(data, HttpArgNames(url)))

\* The same call from its upstream reply on.
HttpSearchResult(url, data, reply) ==
  SearchResult(HttpRoute(url), ReadArgs(data, HttpArgNames(url)), reply)

\* The request listener up to its first await: /health, /list_tools and
\* every method but POST are answered at once; a POST waits for its body.
HttpRequest(r, method, url, body) ==
  /\ reqs[r].pc = "idle"
  /\ LET rq == [reqs[r] EXCEPT !.transport = "http", !.method = method, !.url = url,
                               !.data = body]
     IN  reqs' = [reqs EXCEPT ![r] =
           IF method = "GET" /\ url = "/health"
           THEN [rq EXCEPT !.pc = "done", !.writes = @ + 1,
                           !.resp = HttpOk("health",
                                           Obj(<<Ent("status", Str(<<"o", "k">>))>>), <<>>)]
           ELSE IF method = "POST" /\ url = "/list_tools"
           THEN [rq EXCEPT !.pc = "done", !.writes = @ + 1,
                           !.resp = HttpOk("tools", Undef, <<"nlm_search_icd10">>)]
           ELSE IF method = "POST"
           THEN [rq EXCEPT !.pc = "body"]
           ELSE [rq EXCEPT !.pc = "done", !.writes = @ + 1,
                           !.resp = sendError("Not found", 404)]]

\* The request after the call of its search function: awaiting the fetch, or
\* answered with the error the function threw before it.
AfterCall(rq, call, thrownResp) ==
  IF IsThrow(call)
  THEN [rq EXCEPT !.pc = "done", !.writes = @ + 1, !.result = call, !.resp = thrownResp]
  ELSE [rq EXCEPT !.pc = "fetch", !.call = call, !.calls = @ + 1]

\* The slip of calling the upstream once more when the call failed.
AfterResultRetry(rq, reply, result, resp) ==
  IF IsThrow(result) /\ rq.calls < 2
  THEN [rq EXCEPT !.reply = reply, !.calls = @ + 1]
  ELSE [rq EXCEPT !.pc = "done", !.reply = reply, !.writes = @ + 1, !.result = result,
                  !.resp = resp]

\* The request after the search function returned or threw.
AfterResult(rq, reply, result, resp) ==
  [rq EXCEPT !.pc = "done", !.reply = reply, !.writes = @ + 1, !.result = result,
             !.resp = resp]

\* The slip of answering every exception with a generic 500.
HttpCatchGeneric(thrown) == sendError("Internal Server Error", 500)

\* The catch block of the router: sendError(res, err.message).
HttpCatch(thrown) == sendError(ErrorMessage(thrown), 400)

\* The slip of a missing return after the 404 of an unknown path: the 200
\* answer is written after it.
HttpRoutedNoReturn(rq, data, call) ==
  IF IsThrow(data)
  THEN [rq EXCEPT !.pc = "done", !.writes = @ + 1, !.resp = HttpCatch(data)]
  ELSE IF rq.url \notin HttpToolPaths
  THEN [rq EXCEPT !.pc = "done", !.writes = @ + 2, !.resp = sendError("Not found", 404)]
  ELSE AfterCall(rq, call, HttpCatch(call))

\* The try block of the router once the body is parsed.
HttpRouted(rq, data, call) ==
  IF IsThrow(data)
  THEN [rq EXCEPT !.pc = "done", !.writes = @ + 1, !.resp = HttpCatch(data)]
  ELSE IF rq.url \notin HttpToolPaths
  THEN [rq EXCEPT !.pc = "done", !.writes = @ + 1, !.resp = sendError("Not found", 404)]
  ELSE AfterCall(rq, call, HttpCatch(call))

\* The 'end' event of the body: parseBody settles, then the routing of the
\* try block up to the fetch of the search function.
HttpBodyEnd(r) ==
  /\ reqs[r].pc = "body"
  /\ reqs' = [reqs EXCEPT ![r] =
       HttpRouted(@, JSONParse(@.data), HttpSearchCall(@.url, JSONParse(@.data)))]

\* The 200 answer, or the catch block's sendError.
HttpAnswer(result) ==
  IF IsThrow(result) THEN HttpCatch(result) ELSE HttpOk("result", result, <<>>)

\* The upstream exchange of an HTTP request ends: the rest of the search
\* function, then the 200 answer or the catch block's sendError.
HttpReturn(rq, reply, result) == AfterResult(rq, reply, result, HttpAnswer(result))

HttpUpstreamReply(r, reply) ==
  /\ reqs[r].pc = "fetch"
  /\ reqs[r].transport = "http"
  /\ reqs' = [reqs EXCEPT ![r] =
       HttpReturn(@, reply, HttpSearchResult(@.url, @.data, reply))]

\* new McpError(code, message): the message is prefixed by the class.
McpError(code, message) ==
  [kind |-> "error", status |-> 0, text |-> NoText,
   error |-> "MCP error " \o IntText(code) \o ": " \o message, code |-> code,
   tools |-> <<>>]

\* The code of the McpError thrown for a tool name the switch does not know.
UnknownToolCode == -32603

\* The code of the McpError the catch block wraps every thrown error in.
InternalErrorCode == -32603

\* The catch block of the tool-call handler.
McpCatch(message) == McpError(InternalErrorCode, message)

\* { content: [{ type: 'text', text: JSON.stringify(result, null, 2) }], isError: false }
McpContent(result) ==
  [kind |-> "result", status |-> 0, text |-> JSONStringify(result, 2), error |-> "",
   code |-> 0, tools |-> <<>>]

McpToolNames == {"nlm_search_icd10", "nlm_search_npi_providers", "cms_search_providers"}

\* request.params?.arguments ?? {}
McpArguments(arguments) ==
  IF arguments.k \in {"undef", "null"} THEN Obj(<<>>) ELSE arguments

\* The properties of the arguments the switch passes, in argument order.
McpArgNames(toolName) ==
  IF toolName = "cms_search_providers" THEN MedicareArgNames ELSE TableArgNames

\* The search function the switch picks for a tool name.
McpCase(toolName) ==
  CASE toolName = "nlm_search_icd10" -> "icd10cm"
    [] toolName = "nlm_search_npi_providers" -> "npi_org"
    [] toolName = "cms_search_providers" -> "cms"
    [] OTHER -> ""

\* The search function the switch calls for a tool name, up to its fetch.
McpSearchCall(toolName, a) ==
  SearchCall(McpCase(toolName), ReadArgs(a, McpArgNames(toolName)))

\* The same call from its upstream reply on.
McpSearchResult(toolName, a, reply) ==
  SearchResult(McpCase(toolName), ReadArgs(a, McpArgNames(toolName)), reply)

\* The switch of the tool-call handler, inside its try block.
McpSwitch(rq, toolName, call) ==
  IF toolName \notin McpToolNames
  THEN [rq EXCEPT !.pc = "done", !.writes = @ + 1,
                  !.resp = McpCatch(McpError(UnknownToolCode, "Unknown tool").error)]
  ELSE AfterCall(rq, call, McpCatch(ErrorMessage(call)))

\* The slip of awaiting the upstream synchronously: no tool call is taken
\* while another request awaits its upstream.
CallToolBlocking(r, toolName, arguments) ==
  /\ reqs[r].pc = "idle"
  /\ \A r2 \in Reqs : reqs[r2].pc # "fetch"
  /\ reqs' = [reqs EXCEPT ![r] =
       McpSwitch([@ EXCEPT !.transport = "mcp", !.url = toolName,
                           !.data = McpArguments(arguments)],
                 toolName, McpSearchCall(toolName, McpArguments(arguments)))]

\* The CallToolRequestSchema handler up to the fetch of the search function.
CallTool(r, toolName, arguments) ==
  /\ reqs[r].pc = "idle"
  /\ reqs' = [reqs EXCEPT ![r] =
       McpSwitch([@ EXCEPT !.transport = "mcp", !.url = toolName,
                           !.data = McpArguments(arguments)],
                 toolName, McpSearchCall(toolName, McpArguments(arguments)))]

\* The content result, or the catch block's McpError.
McpAnswer(result) ==
  IF IsThrow(result) THEN McpCatch(ErrorMessage(result)) ELSE McpContent(result)

McpReturn(rq, reply, result) == AfterResult(rq, reply, result, McpAnswer(result))

\* The slip of one pending-answer slot shared by all tool calls: the reply of
\* one call settles every tool call that awaits its upstream.
CallToolReturnShared(r, reply) ==
  /\ reqs[r].pc = "fetch"
  /\ reqs[r].transport = "mcp"
  /\ reqs' = [r2 \in Reqs |->
       IF reqs[r2].pc = "fetch" /\ reqs[r2].transport = "mcp"
       THEN McpReturn(reqs[r2], reply, McpSearchResult(reqs[r].url, reqs[r].data, reply))
       ELSE reqs[r2]]

\* The upstream exchange of a tool call ends: the content result, or the
\* catch block's McpError.
CallToolReturn(r, reply) ==
  /\ reqs[r].pc = "fetch"
  /\ reqs[r].transport = "mcp"
  /\ reqs' = [reqs EXCEPT ![r] =
       McpReturn(@, reply, McpSearchResult(@.url, @.data, reply))]

\* The ListToolsRequestSchema handler.
ListTools(r) ==
  /\ reqs[r].pc = "idle"
  /\ reqs' = [reqs EXCEPT ![r] =
       [@ EXCEPT !.pc = "done", !.transport = "mcp", !.url = "tools/list",
                 !.writes = @ + 1,
                 !.resp = [kind |-> "tools", status |-> 0, text |-> NoText, error |-> "",
                           code |-> 0,
                           tools |-> <<"nlm_search_icd10", "nlm_search_npi_providers",
                                       "cms_search_providers">>]]]

Init == reqs = [r \in Reqs |-> Idle]

(***************************************************************************)
(* Inputs. The callers' requests and the upstream replies are drawn from   *)
(* the sets below.                                                         *)
(***************************************************************************)
\* All sequences over S of length at most n.
RECURSIVE SeqsUpTo(_, _)
SeqsUpTo(S, n) ==
  IF n = 0 THEN {<<>>}
  ELSE LET shorter == SeqsUpTo(S, n - 1)
       IN  shorter \cup {Append(q, x) : q \in {t \in shorter : Len(t) = n - 1}, x \in S}

\* An upstream reply with a status and a body.
Reply(status, body) == [net |-> "ok", status |-> status, body |-> body]

NetworkError == [net |-> "error", status |-> 0, body |-> Undef]

S_tuberc == <<"t", "u", "b", "e", "r", "c">>

S_A15_0 == <<"A", "1", "5", ".", "0">>

S_A15_4 == <<"A", "1", "5", ".", "4">>

S_lung == <<"T", "u", "b", "e", "r", "c", "u", "l", "o", "s", "i", "s", " ", "o", "f", " ", "l", "u", "n", "g">>

S_nodes == <<"T", "u", "b", "e", "r", "c", "u", "l", "o", "s", "i", "s", " ", "o", "f", " ", "i", "n", "t", "r", "a", "t", "h", "o", "r", "a", "c", "i", "c", " ", "l", "y", "m", "p", "h", " ", "n", "o", "d", "e", "s">>

S_excludes_notes == <<"e", "x", "c", "l", "u", "d", "e", "s", ",", "n", "o", "t", "e", "s">>

S_x1 == <<"x", "1">>

S_n1 == <<"n", "1">>

\* The longest id list and display-row list of a table envelope.
MaxIds == 2

\* The ids an envelope lists.
Ids == {Str(S_A15_0), Str(S_A15_4)}

\* Display rows: two full rows, a row with the code alone, and null.
Rows == {Arr(<<Str(S_A15_0), Str(S_lung)>>), Arr(<<Str(S_A15_4), Str(S_nodes)>>),
         Arr(<<Str(S_A15_0)>>), Null}

\* The third element of an envelope: null, an empty map, a map of two value
\* arrays, a map that names a fixed key, and a map with a null value.
Extras == {Null,
           Obj(<<>>),
           Obj(<<Ent("excludes", Arr(<<Str(S_x1), Null>>)),
                 Ent("notes", Arr(<<Str(S_n1)>>))>>),
           Obj(<<Ent("code", Arr(<<Str(S_x1), Str(S_n1)>>))>>),
           Obj(<<Ent("notes", Null)>>)}

\* The bodies a table-search upstream answers with: envelopes
\* [total, ids, extras, rows], an envelope cut after its third element or
\* whose ids is no array, and bodies that are no array or no JSON.
TableBodies ==
  {Arr(<<Num(78), Arr(ids), ex, Arr(rows)>>) :
     ids \in SeqsUpTo(Ids, MaxIds), ex \in Extras, rows \in SeqsUpTo(Rows, MaxIds)}
  \cup {Arr(<<Num(78), Arr(ids), ex>>) : ids \in SeqsUpTo(Ids, MaxIds), ex \in Extras}
  \cup {Arr(<<Num(78), Null, ex, Arr(<<>>)>>) : ex \in Extras}
  \cup {Null, BadJson, Obj(<<Ent("error", Str(S_x1))>>)}

TableReplies == {Reply(200, b) : b \in TableBodies} \cup {NetworkError}

\* The arguments of a table search: terms alone, or with ef empty or set.
TableArguments ==
  {Obj(<<Ent("terms", Str(S_tuberc))>>),
   Obj(<<Ent("terms", Str(S_tuberc)), Ent("ef", Str(<<>>))>>),
   Obj(<<Ent("terms", Str(S_tuberc)), Ent("ef", Str(S_excludes_notes))>>)}

(***************************************************************************)
(* SpecTable: one tool call to either table search, any reply.             *)
(***************************************************************************)
NextTable ==
  \/ \E name \in {"nlm_search_icd10", "nlm_search_npi_providers"},
        a \in TableArguments : CallTool(1, name, a)
  \/ \E reply \in TableReplies : CallToolReturn(1, reply)

SpecTable == Init /\ [][NextTable]_vars

(***************************************************************************)
(* Reading a finished request.                                             *)
(***************************************************************************)
Done(r) == reqs[r].pc = "done"

\* The value of a key of an object, undefined when it has none.
Field(o, key) == Lookup(o.e, key, 1)

KeySet(o) == {KeyOf(o.e[i]) : i \in 1..Len(o.e)}

\* Element i (from 1) of a sequence of values, undefined past its end.
ElemAt(elems, i) == IF i <= Len(elems) THEN elems[i] ELSE Undef

\* The request got a table envelope whose ids element is an array.
TableCase(r, tool) ==
  /\ Done(r)
  /\ reqs[r].url = tool
  /\ reqs[r].reply.net = "ok"
  /\ reqs[r].reply.body.k = "arr"
  /\ ElemAt(reqs[r].reply.body.e, 2).k = "arr"

EnvTotal(r) == ElemAt(reqs[r].reply.body.e, 1)

EnvIds(r) == ElemAt(reqs[r].reply.body.e, 2).e

EnvExtras(r) == ElemAt(reqs[r].reply.body.e, 3)

EnvRows(r) == ElemAt(reqs[r].reply.body.e, 4)

\* The name the envelope gives for id i (from 1): rows[i][1] of an array row.
EnvName(r, i) ==
  IF EnvRows(r).k = "arr" /\ ElemAt(EnvRows(r).e, i).k = "arr"
  THEN ElemAt(ElemAt(EnvRows(r).e, i).e, 2)
  ELSE Undef

\* ef is absent from the arguments, or the empty string.
EfOmittedOrEmpty(r) ==
  ~HasKey(reqs[r].data, "ef") \/ Field(reqs[r].data, "ef") = Str(<<>>)

\* Extra fields are attached: ef was asked for and the envelope has extras.
Attached(r) == ~EfOmittedOrEmpty(r) /\ Truthy(Field(reqs[r].data, "ef")) /\ Truthy(EnvExtras(r))

\* The keys the envelope's extras element attaches.
ExtraKeys(r) == {KeyOf(ObjectEntries(EnvExtras(r))[j]) : j \in DOMAIN ObjectEntries(EnvExtras(r))}

\* Some value of the extras element is null or undefined, so values[index]
\* cannot be read.
ExtrasUnreadable(r) ==
  \E j \in DOMAIN ObjectEntries(EnvExtras(r)) :
    ValOf(ObjectEntries(EnvExtras(r))[j]).k \in {"undef", "null"}

\* The request succeeded with {total: envelope[0], codes}, one item per id.
CodesPerId(r) ==
  /\ reqs[r].result.k = "obj"
  /\ ObjKeys(reqs[r].result) = <<"total", "codes">>
  /\ Field(reqs[r].result, "total") = EnvTotal(r)
  /\ Field(reqs[r].result, "codes").k = "arr"
  /\ Len(Field(reqs[r].result, "codes").e) = Len(EnvIds(r))

CodeAt(r, i) == Field(reqs[r].result, "codes").e[i]

StubEnvelope ==
  Arr(<<Num(78), Arr(<<Str(S_A15_0), Str(S_A15_4)>>), Null,
        Arr(<<Arr(<<Str(S_A15_0), Str(S_lung)>>), Arr(<<Str(S_A15_4), Str(S_nodes)>>)>>)>>)

StubResult ==
  Obj(<<Ent("total", Num(78)),
        Ent("codes", Arr(<<Obj(<<Ent("code", Str(S_A15_0)), Ent("name", Str(S_lung))>>),
                           Obj(<<Ent("code", Str(S_A15_4)), Ent("name", Str(S_nodes))>>)>>))>>)

\* C1 as stated: for every envelope whose ids is an array the diagnosis
\* search succeeds with {total: envelope[0], codes}, one item per id in
\* order, with code = ids[i] and name = rows[i][1] (undefined when row i is
\* missing or no array). It fails when ef is set and the envelope's extras
\* map has a key "code" or "name", or a null value.
C1_AsStated ==
  \A r \in Reqs :
    TableCase(r, "nlm_search_icd10") =>
      /\ CodesPerId(r)
      /\ \A i \in 1..Len(EnvIds(r)) :
           /\ Field(CodeAt(r, i), "code") = EnvIds(r)[i]
           /\ Field(CodeAt(r, i), "name") = EnvName(r, i)

\* The fixed keys of a table search's items.
FixedKeys(tool) ==
  IF tool = "nlm_search_icd10" THEN {"code", "name"}
  ELSE {"npi", "name", "type", "address"}

\* The items of a table search's result.
ItemsOf(r) ==
  Field(reqs[r].result,
        IF reqs[r].url = "nlm_search_icd10" THEN "codes" ELSE "providers").e

ExcludesNotesCase(r) ==
  /\ TableCase(r, "nlm_search_icd10")
  /\ Field(reqs[r].data, "ef") = Str(S_excludes_notes)
  /\ EnvExtras(r).k = "obj"
  /\ KeySet(EnvExtras(r)) = {"excludes", "notes"}
  /\ Field(EnvExtras(r), "excludes").k = "arr"
  /\ Field(EnvExtras(r), "notes").k = "arr"

\* C3: with ef = "excludes,notes" and an extras map {excludes: [...],
\* notes: [...]}, every item i has exactly the keys code, name, excludes and
\* notes, with excludes = excludes[i] and notes = notes[i].
C3_ExtrasAlignedByIndex ==
  \A r \in Reqs :
    ExcludesNotesCase(r) =>
      /\ CodesPerId(r)
      /\ \A i \in 1..Len(EnvIds(r)) :
           /\ KeySet(CodeAt(r, i)) = {"code", "name", "excludes", "notes"}
           /\ Len(CodeAt(r, i).e) = 4
           /\ Field(CodeAt(r, i), "excludes") = ElemAt(Field(EnvExtras(r), "excludes").e, i)
           /\ Field(CodeAt(r, i), "notes") = ElemAt(Field(EnvExtras(r), "notes").e, i)

\* Such a search returned two items, the first with both extra values.
C3_Witness ==
  \E r \in Reqs :
    /\ ExcludesNotesCase(r)
    /\ reqs[r].result.k = "obj"
    /\ Len(EnvIds(r)) = 2
    /\ Field(CodeAt(r, 1), "excludes") = Str(S_x1)
    /\ Field(CodeAt(r, 1), "notes") = Str(S_n1)

(***************************************************************************)
(* SpecCms: one HTTP request to the claims search, any reply.              *)
(***************************************************************************)
S_other == <<"o", "t", "h", "e", "r">>

S_50000 == <<"5", "0", "0", "0", "0">>

S_npi1 == <<"1", "0", "0", "3", "0", "0", "0", "1", "2", "6">>

S_99213 == <<"9", "9", "2", "1", "3">>

\* The most rows a claims reply holds.
MaxRows == 2

\* Upstream records: a full one with a numeric Tot_HCPCS_Cds and an empty
\* middle initial, one whose Tot_HCPCS_Cds is no numeral, one without
\* provider fields, and null.
RecordFull ==
  Obj(<<Ent("Rndrng_NPI", Str(S_npi1)),
        Ent("Rndrng_Prvdr_Last_Org_Name", Str(<<"D", "o", "e">>)),
        Ent("Rndrng_Prvdr_First_Name", Str(<<"J", "o">>)),
        Ent("Rndrng_Prvdr_MI", Str(<<>>)),
        Ent("Tot_HCPCS_Cds", Str(<<"2", "3">>)),
        Ent("HCPCS_Cd", Str(S_99213)),
        Ent("Rndrng_Prvdr_Geo_Lvl", Str(<<"S", "t", "a", "t", "e">>))>>)

RecordNoCount ==
  Obj(<<Ent("Rndrng_NPI", Str(S_npi1)),
        Ent("Rndrng_Prvdr_Last_Org_Name", Str(<<"R", "o", "e">>)),
        Ent("Rndrng_Prvdr_First_Name", Str(<<"A", "l">>)),
        Ent("Rndrng_Prvdr_MI", Str(<<"J">>)),
        Ent("Tot_HCPCS_Cds", Str(<<"n", "/", "a">>))>>)

RecordBare == Obj(<<Ent("HCPCS_Cd", Str(S_99213))>>)

Records == {RecordFull, RecordNoCount, RecordBare, Null}

ClaimsBodies ==
  {Arr(rows) : rows \in SeqsUpTo(Records, MaxRows)}
  \cup {Null, BadJson, Str(S_other), Obj(<<Ent("message", Str(S_other))>>)}

ClaimsReplies ==
  {Reply(200, b) : b \in ClaimsBodies}
  \cup {Reply(500, Arr(<<>>)), Reply(404, BadJson), NetworkError}

DatasetTypes == {Undef, Str(S_geography_and_service), Str(S_provider_and_service),
                 Str(S_provider), Str(S_other)}

Sizes == {Undef, Num(1), Num(5000), Num(5001), Num(50000), Num(-5), Str(S_50000), Null}

\* {name: val}, the key left out when val is undefined.
Opt(name, val) == IF val.k = "undef" THEN <<>> ELSE <<Ent(name, val)>>

ClaimsArguments ==
  {Obj(Opt("dataset_type", d) \o Opt("size", z)) : d \in DatasetTypes, z \in Sizes}

NextCms ==
  \/ \E a \in ClaimsArguments : HttpRequest(1, "POST", "/cms_search_providers", a)
  \/ HttpBodyEnd(1)
  \/ \E reply \in ClaimsReplies : HttpUpstreamReply(1, reply)

SpecCms == Init /\ [][NextCms]_vars

\* A claims search that returned a result.
ClaimsResult(r) ==
  /\ Done(r)
  /\ reqs[r].url \in {"/cms_search_providers", "cms_search_providers"}
  /\ reqs[r].result.k = "obj"

Providers(r) == Field(reqs[r].result, "providers").e

\* C4: in every successful claims result, for every dataset_type, total is
\* the number of items of providers, which is the number of rows of the
\* upstream array; the answer written carries the same total and items.
C4_TotalIsRowCount ==
  \A r \in Reqs :
    ClaimsResult(r) =>
      /\ reqs[r].reply.body.k = "arr"
      /\ Field(reqs[r].result, "total") = Num(Len(Providers(r)))
      /\ Len(Providers(r)) = Len(reqs[r].reply.body.e)
      /\ reqs[r].resp.kind = "result"
      /\ Field(reqs[r].resp.text.json, "total")
           = Num(Len(Field(reqs[r].resp.text.json, "providers").e))
      /\ Len(Field(reqs[r].resp.text.json, "providers").e) = Len(reqs[r].reply.body.e)

\* A claims search of the provider dataset returned two rows, total 2.
C4_Witness ==
  \E r \in Reqs :
    /\ ClaimsResult(r)
    /\ Field(reqs[r].data, "dataset_type") = Str(S_provider)
    /\ Len(reqs[r].reply.body.e) = 2
    /\ Field(reqs[r].result, "total") = Num(2)

\* A claims search with dataset_type = "provider" that returned a result.
ProviderCase(r) ==
  ClaimsResult(r) /\ Field(reqs[r].data, "dataset_type") = Str(S_provider)

\* A string of decimal digits.
IsNumeral(v) ==
  v.k = "str" /\ v.s # <<>> /\ \A i \in 1..Len(v.s) : v.s[i] \in {DigitChars[j] : j \in 1..10}

SizeValues(r) ==
  {ValOf(reqs[r].call.query[j]).s :
     j \in {x \in 1..Len(reqs[r].call.query) : KeyOf(reqs[r].call.query[x]) = "size"}}

\* C6: the size parameter of a claims query is min(size, 5000) for every
\* requested size: a size of 50000 is sent as 5000, and no query carries a
\* size above 5000.
C6_SizeClamped ==
  \A r \in Reqs :
    reqs[r].call.api = "cms" =>
      /\ Cardinality(SizeValues(r)) = 1
      /\ \A v \in SizeValues(r) :
           /\ Field(reqs[r].data, "size").k = "num" =>
                v = IntChars(IF Field(reqs[r].data, "size").n <= 5000
                             THEN Field(reqs[r].data, "size").n ELSE 5000)
           /\ Field(reqs[r].data, "size") = Num(50000) => v = <<"5", "0", "0", "0">>
           /\ ParseInt(Str(v)).k = "num" => ParseInt(Str(v)).n <= 5000

\* A claims search asked for 50000 rows and its query says size=5000.
C6_Witness ==
  \E r \in Reqs :
    /\ reqs[r].call.api = "cms"
    /\ Field(reqs[r].data, "size") = Num(50000)
    /\ SizeValues(r) = {<<"5", "0", "0", "0">>}

(***************************************************************************)
(* SpecHttp: one HTTP request of any method, path and body.                *)
(***************************************************************************)
HttpMethods == {"GET", "POST", "PUT"}

HttpPaths == {"/health", "/list_tools", "/nlm_search_icd10", "/nlm_search_npi_providers",
              "/cms_search_providers", "/search_icd10cm_codes", "/"}

HttpBodies == {BadJson, Null, Obj(<<>>), Obj(<<Ent("terms", Str(S_tuberc))>>)}

\* The replies of the upstream a call goes to.
FewReplies(api) ==
  IF api = "cms"
  THEN {Reply(200, Arr(<<RecordFull, RecordNoCount>>)), Reply(500, Arr(<<>>)), NetworkError}
  ELSE {Reply(200, StubEnvelope), Reply(200, BadJson), NetworkError}

\* The replies with which the upstream exchange fails: no connection, a
\* status outside 2xx, a body that is no JSON.
FailedReplies(api) ==
  {reply \in FewReplies(api) :
     reply.net = "error" \/ reply.status \notin 200..299 \/ reply.body = BadJson}

NextHttp ==
  \/ \E m \in HttpMethods, u \in HttpPaths, b \in HttpBodies : HttpRequest(1, m, u, b)
  \/ HttpBodyEnd(1)
  \/ \E reply \in FewReplies(reqs[1].call.api) : HttpUpstreamReply(1, reply)

SpecHttp == Init /\ [][NextHttp]_vars

IsHttp(r) == reqs[r].transport = "http"

\* C8 as stated: a malformed JSON body to any HTTP route is answered 400 with
\* {error, code} and no upstream call. It fails for GET /health and
\* POST /list_tools (200) and for every method but POST (404).
C8_AsStated ==
  \A r \in Reqs :
    (IsHttp(r) /\ Done(r) /\ reqs[r].data = BadJson) =>
      /\ reqs[r].resp.kind = "error"
      /\ reqs[r].resp.status = 400
      /\ reqs[r].calls = 0

\* C8 (amended): a malformed JSON body never causes an upstream call; sent by
\* POST to any path but /list_tools it is answered 400 with {error, code: 400};
\* GET /health and POST /list_tools answer 200 without reading the body, and
\* any other request that is no POST is answered 404.
C8_MalformedBody ==
  \A r \in Reqs :
    (IsHttp(r) /\ reqs[r].data = BadJson) =>
      /\ reqs[r].calls = 0
      /\ Done(r) =>
           IF reqs[r].method = "GET" /\ reqs[r].url = "/health"
           THEN reqs[r].resp.status = 200 /\ reqs[r].resp.kind = "health"
           ELSE IF reqs[r].method = "POST" /\ reqs[r].url = "/list_tools"
           THEN reqs[r].resp.status = 200 /\ reqs[r].resp.kind = "tools"
           ELSE IF reqs[r].method = "POST"
           THEN /\ reqs[r].resp.kind = "error"
                /\ reqs[r].resp.status = 400
                /\ reqs[r].resp.code = 400
           ELSE /\ reqs[r].resp.kind = "error"
                /\ reqs[r].resp.status = 404
                /\ reqs[r].resp.code = 404

\* A malformed body POSTed to the diagnosis search was answered 400.
C8_Witness ==
  \E r \in Reqs :
    /\ IsHttp(r) /\ Done(r) /\ reqs[r].data = BadJson
    /\ reqs[r].method = "POST" /\ reqs[r].url = "/nlm_search_icd10"
    /\ reqs[r].resp.status = 400

\* The method and path pairs the listener serves.
Routes == {<<"GET", "/health">>, <<"POST", "/list_tools">>, <<"POST", "/nlm_search_icd10">>,
           <<"POST", "/nlm_search_npi_providers">>, <<"POST", "/cms_search_providers">>}

FewArguments(tool) ==
  CASE tool = "nlm_search_icd10" ->
         {Obj(<<Ent("terms", Str(S_tuberc))>>),
          Obj(<<Ent("terms", Str(S_tuberc)), Ent("ef", Str(S_excludes_notes))>>),
          Obj(<<Ent("terms", Str(S_tuberc)), Ent("maxList", Null)>>)}
    [] tool = "nlm_search_npi_providers" ->
         {Obj(<<Ent("terms", Str(S_tuberc))>>),
          Obj(<<Ent("terms", Str(S_tuberc)), Ent("ef", Str(S_excludes_notes))>>)}
    [] tool = "cms_search_providers" ->
         {Obj(<<>>),
          Obj(<<Ent("dataset_type", Str(S_provider)), Ent("size", Num(50000))>>)}
    [] OTHER -> {Obj(<<>>)}

\* An envelope with extras for two ids and a single display row.
ExtrasEnvelope ==
  Arr(<<Num(2), Arr(<<Str(S_A15_0), Str(S_A15_4)>>),
        Obj(<<Ent("excludes", Arr(<<Str(S_x1), Null>>)), Ent("notes", Arr(<<Str(S_n1)>>))>>),
        Arr(<<Arr(<<Str(S_A15_0), Str(S_lung)>>)>>)>>)

\* The replies of the upstream a call goes to.
MainReplies(api) ==
  IF api = "cms"
  THEN {Reply(200, Arr(<<RecordFull, RecordNoCount>>)), Reply(500, Arr(<<>>)), NetworkError}
  ELSE {Reply(200, ExtrasEnvelope), Reply(200, BadJson), NetworkError}

Next ==
  \E r \in Reqs :
    \/ \E tool \in McpToolNames : \E a \in FewArguments(tool) :
         HttpRequest(r, "POST", "/" \o tool, a)
    \/ \E route \in {<<"GET", "/health">>, <<"POST", "/list_tools">>} :
         HttpRequest(r, route[1], route[2], Obj(<<>>))
    \/ HttpBodyEnd(r)
    \/ \E reply \in MainReplies(reqs[r].call.api) : HttpUpstreamReply(r, reply)
    \/ \E tool \in McpToolNames \cup {"search_icd10cm_codes"} :
         \E a \in FewArguments(tool) : CallTool(r, tool, a)
    \/ \E reply \in MainReplies(reqs[r].call.api) : CallToolReturn(r, reply)
    \/ ListTools(r)

Spec == Init /\ [][Next]_vars

IsMcp(r) == reqs[r].transport = "mcp"

\* C7 as stated: an unknown tool name fails with a structured error whose
\* code differs from the code of the internal error that wraps what a search
\* function throws, and causes no upstream call. The handler throws
\* McpError(-32603) for it and wraps it again with -32603, the internal-error
\* code.
C7_UnknownToolDistinct ==
  \A r \in Reqs :
    (IsMcp(r) /\ Done(r) /\ reqs[r].url \notin McpToolNames \cup {"tools/list"}) =>
      /\ reqs[r].resp.kind = "error"
      /\ reqs[r].calls = 0
      /\ reqs[r].resp.code # InternalErrorCode

\* The same tool, arguments and upstream reply, once over HTTP (r1) and once
\* as a tool call (r2), both answered.
SameRequest(r1, r2) ==
  /\ IsHttp(r1) /\ IsMcp(r2) /\ Done(r1) /\ Done(r2)
  /\ reqs[r2].url \in McpToolNames
  /\ reqs[r1].method = "POST"
  /\ reqs[r1].url = "/" \o reqs[r2].url
  /\ reqs[r1].data = reqs[r2].data
  /\ reqs[r1].reply = reqs[r2].reply

\* C10: for the same tool, argument map and upstream reply the two
\* transports both succeed, the JSON text of the tool-call content and the
\* HTTP 200 body denoting the same JSON value, or both fail.
C10_TransportsAgree ==
  \A r1, r2 \in Reqs :
    SameRequest(r1, r2) =>
      \/ /\ reqs[r1].resp.kind = "result" /\ reqs[r1].resp.status = 200
         /\ reqs[r2].resp.kind = "result"
         /\ reqs[r1].resp.text.json = reqs[r2].resp.text.json
      \/ /\ reqs[r1].resp.kind = "error"
         /\ reqs[r2].resp.kind = "error"

\* The diagnosis search with ef set succeeded on both transports with the
\* same two items.
C10_Witness ==
  \E r1, r2 \in Reqs :
    /\ SameRequest(r1, r2)
    /\ reqs[r2].url = "nlm_search_icd10"
    /\ HasKey(reqs[r2].data, "ef")
    /\ reqs[r1].resp.kind = "result"
    /\ reqs[r2].resp.kind = "result"
    /\ Len(Field(reqs[r2].resp.text.json, "codes").e) = 2

\* The tool names a finished listing names.
ListedTools(r) == {reqs[r].resp.tools[i] : i \in 1..Len(reqs[r].resp.tools)}

\* C13: every tool listing, POST /list_tools as well as listTools(), names
\* the three tools, and the listed names are 1:1 with the POST /<toolName>
\* routes. POST /list_tools names nlm_search_icd10 only.
C13_SameRegistry ==
  \A r \in Reqs :
    (Done(r) /\ reqs[r].resp.kind = "tools") =>
      /\ ListedTools(r) = McpToolNames
      /\ {"/" \o t : t \in ListedTools(r)} = HttpToolPaths

(***************************************************************************)
(* SpecArgs: one request of either transport; the argument map leaves out  *)
(* or supplies each parameter.                                             *)
(***************************************************************************)
\* The ways to supply a parameter: left out (undefined) or one of vals.
OptsOf(name, vals) == {Opt(name, v) : v \in vals}

TableArgChoices ==
  {Obj(t \o m \o c \o o \o q \o e \o d) :
     t \in OptsOf("terms", {Undef, Str(S_tuberc)}),
     m \in OptsOf("maxList", {Undef, Num(7), Num(1000), Null}),
     c \in OptsOf("count", {Undef, Num(1)}),
     o \in OptsOf("offset", {Undef, Num(-1)}),
     q \in OptsOf("q", {Undef, Str(<<>>), Str(S_x1)}),
     e \in OptsOf("ef", {Undef, Str(<<>>), Str(S_excludes_notes)}),
     d \in OptsOf("df", {Undef, Str(S_code)})}
  \cup {Obj(<<Ent("terms", Str(S_tuberc)), Ent("sf", Str(S_code))>>),
        Obj(<<Ent("terms", Str(S_tuberc)), Ent("cf", Str(<<"n", "a", "m", "e">>))>>)}

CmsArgChoices ==
  {Obj(d \o z \o o) :
     d \in OptsOf("dataset_type", {Undef, Str(S_provider), Str(S_geography_and_service)}),
     z \in OptsOf("size", {Undef, Num(1), Num(50000), Num(-5)}),
     o \in OptsOf("offset", {Undef, Num(-1), Num(5)})}

ArgChoices(tool) ==
  IF tool = "cms_search_providers" THEN CmsArgChoices ELSE TableArgChoices

\* The replies of the upstream a call goes to: two rows, or no connection.
TwoRowReplies(api) ==
  IF api = "cms"
  THEN {Reply(200, Arr(<<RecordFull, RecordNoCount>>)), NetworkError}
  ELSE {Reply(200, StubEnvelope), NetworkError}

NextArgs ==
  \/ \E tool \in McpToolNames : \E a \in ArgChoices(tool) :
       HttpRequest(1, "POST", "/" \o tool, a)
  \/ HttpBodyEnd(1)
  \/ \E reply \in TwoRowReplies(reqs[1].call.api) : HttpUpstreamReply(1, reply)
  \/ \E tool \in McpToolNames : \E a \in ArgChoices(tool) : CallTool(1, tool, a)
  \/ \E reply \in TwoRowReplies(reqs[1].call.api) : CallToolReturn(1, reply)

SpecArgs == Init /\ [][NextArgs]_vars

\* The request is for one of the two table searches.
TableTool(r) ==
  reqs[r].url \in {"nlm_search_icd10", "nlm_search_npi_providers",
                   "/nlm_search_icd10", "/nlm_search_npi_providers"}

\* The request issued an upstream call of a table search.
TableCall(r) == reqs[r].call.api \in {"icd10cm", "npi_org"}

\* The positions of a parameter in the upstream query of a request.
QueryAt(r, name) ==
  {j \in 1..Len(reqs[r].call.query) : KeyOf(reqs[r].call.query[j]) = name}

\* The values a parameter has in the upstream query of a request.
QueryValues(r, name) == {ValOf(reqs[r].call.query[j]).s : j \in QueryAt(r, name)}

\* C11: a table search whose argument map has no terms is rejected before
\* any upstream call, on either transport. The code sends terms=undefined
\* upstream instead.
C11_TermsRequired ==
  \A r \in Reqs :
    (TableTool(r) /\ reqs[r].data.k = "obj" /\ ~HasKey(reqs[r].data, "terms")) =>
      /\ reqs[r].calls = 0
      /\ reqs[r].pc # "fetch"
      /\ Done(r) => reqs[r].resp.kind = "error"

\* The documented default of a parameter, as the text the query carries.
DocumentedDefault(api, name) ==
  CASE name \in {"maxList", "count"} -> <<"5", "0", "0">>
    [] name = "offset" -> <<"0">>
    [] name = "size" -> <<"1", "0">>
    [] name \in {"df", "sf"} ->
         IF api = "icd10cm" THEN <<"c", "o", "d", "e", ",", "n", "a", "m", "e">>
         ELSE <<"N", "P", "I", ",", "n", "a", "m", "e", ".", "f", "u", "l", "l", ",", "p", "r", "o", "v", "i", "d", "e", "r", "_", "t", "y", "p", "e", ",", "a", "d", "d", "r", "_", "p", "r", "a", "c", "t", "i", "c", "e", ".", "f", "u", "l", "l">>
    [] OTHER -> IF api = "icd10cm" THEN <<"c", "o", "d", "e">> ELSE <<"N", "P", "I">>

\* The text the query carries for a supplied value: the value as a string,
\* a size above 5000 as 5000.
SuppliedText(name, v) ==
  IF name = "size" /\ v.k = "num" /\ v.n > 5000 THEN <<"5", "0", "0", "0">> ELSE ToStr(v)

\* The parameters of a search that have a default and appear in the query.
DefaultedNames(api) ==
  IF api = "cms" THEN {"size", "offset"}
  ELSE {"maxList", "count", "offset", "df", "sf", "cf"}

C15_ListClamped ==
  \A r \in Reqs :
    TableCall(r) =>
      \A name \in {"maxList", "count"} : \A v \in QueryValues(r, name) :
        ParseInt(Str(v)).k = "num" => ParseInt(Str(v)).n <= 500

\* C16: every maxList, count, offset and size of an upstream query is a
\* non-negative integer. The code forwards a negative size or offset.
C16_NonNegativeIntegers ==
  \A r \in Reqs :
    reqs[r].calls > 0 =>
      \A name \in {"maxList", "count", "offset", "size"} :
        \A v \in QueryValues(r, name) : IsNumeral(Str(v))

\* The items of a result, whichever key lists them.
ResultItems(r) ==
  Field(reqs[r].result, IF HasKey(reqs[r].result, "codes") THEN "codes" ELSE "providers").e

\* The page size of a request: count for a table search (default 500), the
\* size clamped to 5000 for the claims search (default 10).
PageSize(r) ==
  IF reqs[r].call.api = "cms"
  THEN (IF Field(reqs[r].data, "size").k = "num"
        THEN (IF Field(reqs[r].data, "size").n > 5000 THEN 5000
              ELSE Field(reqs[r].data, "size").n)
        ELSE 10)
  ELSE (IF Field(reqs[r].data, "count").k = "num" THEN Field(reqs[r].data, "count").n
        ELSE 500)

\* C19: a successful result never has more items than the page size of its
\* request. The code returns one item per upstream row.
C19_PageSize ==
  \A r \in Reqs :
    (Done(r) /\ reqs[r].result.k = "obj") => Len(ResultItems(r)) <= PageSize(r)

\* C20: the query of a table search has exactly one each of terms, maxList,
\* count, offset, df, sf and cf, and q (ef) is in it exactly when the caller
\* supplied q (ef), an empty string being sent as an empty parameter. The
\* code leaves out a q or ef that is the empty string.
C20_QueryShape ==
  \A r \in Reqs :
    TableCall(r) =>
      /\ \A name \in {"terms", "maxList", "count", "offset", "df", "sf", "cf"} :
           Cardinality(QueryAt(r, name)) = 1
      /\ \A name \in {"q", "ef"} :
           /\ Cardinality(QueryAt(r, name)) = (IF HasKey(reqs[r].data, name) THEN 1 ELSE 0)
           /\ Field(reqs[r].data, name) = Str(<<>>) => QueryValues(r, name) = {<<>>}

(***************************************************************************)
(* SpecReplies: one request of either transport; the upstream answers with *)
(* any status and body, or not at all.                                     *)
(***************************************************************************)
AnyReplies(api) ==
  IF api = "cms"
  THEN {Reply(st, b) : st \in {200, 500},
                       b \in {Arr(<<RecordFull>>), Arr(<<Null>>), Null, BadJson}}
       \cup {NetworkError}
  ELSE {Reply(st, b) : st \in {200, 500},
                       b \in {StubEnvelope, ExtrasEnvelope, Arr(<<Num(0)>>), Null, BadJson}}
       \cup {Reply(404, Obj(<<Ent("message", Str(S_other))>>)), NetworkError}

NextReplies ==
  \/ \E tool \in McpToolNames : \E a \in FewArguments(tool) :
       HttpRequest(1, "POST", "/" \o tool, a)
  \/ HttpBodyEnd(1)
  \/ \E reply \in AnyReplies(reqs[1].call.api) : HttpUpstreamReply(1, reply)
  \/ \E tool \in McpToolNames : \E a \in FewArguments(tool) : CallTool(1, tool, a)
  \/ \E reply \in AnyReplies(reqs[1].call.api) : CallToolReturn(1, reply)

SpecReplies == Init /\ [][NextReplies]_vars

\* The search function of a finished request threw.
Threw(r) == Done(r) /\ IsThrow(reqs[r].result)

\* C12: every error the upstream client or a mapper throws (no connection,
\* a body that is no JSON, a body the mapper cannot read) reaches the caller
\* with its message: as an McpError of code -32603 whose message ends with
\* it on the tool-call transport, as status 400 with {error: message,
\* code: 400} over HTTP; no such failure ends in a success.
C12_ErrorsReachCaller ==
  \A r \in Reqs :
    /\ Threw(r) =>
         /\ reqs[r].resp.kind = "error"
         /\ IsHttp(r) =>
              /\ reqs[r].resp.status = 400
              /\ reqs[r].resp.code = 400
              /\ reqs[r].resp.error = reqs[r].result.s[1]
         /\ IsMcp(r) =>
              /\ reqs[r].resp.code = -32603
              /\ reqs[r].resp.error = "MCP error -32603: " \o reqs[r].result.s[1]
    /\ (Done(r) /\ reqs[r].calls > 0
          /\ (reqs[r].reply.net = "error" \/ reqs[r].reply.body \in {BadJson, Null})) =>
         Threw(r)
    /\ (Done(r) /\ reqs[r].resp.kind = "result") => reqs[r].result.k = "obj"

\* A tool call whose upstream could not be reached ended in the McpError
\* that carries the message of the failed fetch.
C12_Witness ==
  \E r \in Reqs :
    /\ Threw(r) /\ IsMcp(r)
    /\ reqs[r].reply.net = "error"
    /\ reqs[r].resp.error = "MCP error -32603: " \o Fetch(NetworkError).s[1]

\* C17: no upstream response with a status outside 2xx ends in a success, for
\* any tool. The table searches never look at the status.
C17_NoSuccessOnBadStatus ==
  \A r \in Reqs :
    (Done(r) /\ reqs[r].reply.net = "ok" /\ reqs[r].reply.status \notin 200..299) =>
      reqs[r].resp.kind = "error"

\* The items of the answer written, after JSON.stringify.
DeliveredItems(r) ==
  Field(reqs[r].resp.text.json,
        IF HasKey(reqs[r].resp.text.json, "codes") THEN "codes" ELSE "providers").e

\* The keys every item of a table search must carry.
MandatoryKeys(r) ==
  IF reqs[r].url \in {"nlm_search_icd10", "/nlm_search_icd10"} THEN {"code", "name"}
  ELSE {"npi", "name", "type", "address"}

\* C18: every item of a table search's answer, as serialised, has the
\* mandatory keys of its tool even when its display row is missing. The
\* diagnosis mapper leaves name undefined and JSON.stringify drops the key.
C18_MandatoryKeys ==
  \A r \in Reqs :
    (Done(r) /\ TableTool(r) /\ reqs[r].resp.kind = "result") =>
      \A i \in 1..Len(DeliveredItems(r)) :
        MandatoryKeys(r) \subseteq KeySet(DeliveredItems(r)[i])

(***************************************************************************)
(* SpecFilters: one claims search as a tool call; the argument map leaves  *)
(* out or supplies the dataset, each filter, the keyword and the sort.     *)
(***************************************************************************)
S_HCPCS_Cd == <<"H", "C", "P", "C", "S", "_", "C", "d">>

S_State == <<"S", "t", "a", "t", "e">>

SortChoices ==
  {Undef, Null,
   Obj(<<Ent("field", Str(S_HCPCS_Cd)), Ent("direction", Str(S_desc))>>),
   Obj(<<Ent("field", Str(S_HCPCS_Cd)), Ent("direction", Str(<<"a", "s", "c">>))>>),
   Obj(<<Ent("field", Str(S_HCPCS_Cd))>>)}

FilterArgChoices ==
  {Obj(d \o h \o l \o c \o p \o k \o t) :
     d \in OptsOf("dataset_type", DatasetTypes),
     h \in OptsOf("hcpcs_code", {Undef, Str(S_99213)}),
     l \in OptsOf("geo_level", {Undef, Str(S_State)}),
     c \in OptsOf("geo_code", {Undef, Str(<<"0", "6">>)}),
     p \in OptsOf("place_of_service", {Undef, Str(<<"F">>)}),
     k \in OptsOf("keyword", {Undef, Str(<<>>), Str(S_x1)}),
     t \in OptsOf("sort", SortChoices)}

NextFilters ==
  \/ \E a \in FilterArgChoices : CallTool(1, "cms_search_providers", a)
  \/ \E reply \in {Reply(200, Arr(<<RecordFull>>)), NetworkError} : CallToolReturn(1, reply)

SpecFilters == Init /\ [][NextFilters]_vars

\* The request issued an upstream call of the claims search.
ClaimsCall(r) == reqs[r].call.api = "cms"

\* The three parameters of a filter slot.
SlotPath(slot) == "filter[" \o slot \o "][condition][path]"

SlotOperator(slot) == "filter[" \o slot \o "][condition][operator]"

SlotValue(slot) == "filter[" \o slot \o "][condition][value]"

\* A filter slot is in the query of a request.
Emitted(r, slot) == QueryAt(r, SlotPath(slot)) # {}

\* The slot, argument and upstream column of each filter.
FilterSlots ==
  {<<"filter-1", "hcpcs_code", <<"H", "C", "P", "C", "S", "_", "C", "d">>>>,
   <<"filter-2", "geo_level", <<"R", "n", "d", "r", "n", "g", "_", "P", "r", "v", "d", "r", "_", "G", "e", "o", "_", "L", "v", "l">>>>,
   <<"filter-3", "geo_code", <<"R", "n", "d", "r", "n", "g", "_", "P", "r", "v", "d", "r", "_", "G", "e", "o", "_", "C", "d">>>>,
   <<"filter-4", "place_of_service", <<"P", "l", "a", "c", "e", "_", "O", "f", "_", "S", "r", "v", "c">>>>}

\* The dataset_type of a request is this variant (geography_and_service
\* also when left out).
IsVariant(r, chars) ==
  \/ Field(reqs[r].data, "dataset_type") = Str(chars)
  \/ chars = <<"g", "e", "o", "g", "r", "a", "p", "h", "y", "_", "a", "n", "d", "_", "s", "e", "r", "v", "i", "c", "e">> /\ ~HasKey(reqs[r].data, "dataset_type")

\* C21: in the claims query a filter, when emitted, is in its own slot with
\* its own column, operator "=" and the supplied value, whatever other
\* filters are present; the geo_level and geo_code filters are emitted only
\* for geography_and_service and no hcpcs_code or place_of_service filter for
\* provider; the filters of the active variant that were supplied are
\* emitted, and a request with an irrelevant filter still issues its call.
C21_FilterSlots ==
  \A r \in Reqs :
    /\ ClaimsCall(r) =>
         /\ \A f \in FilterSlots :
              /\ Cardinality(QueryAt(r, SlotPath(f[1]))) <= 1
              /\ Emitted(r, f[1]) =>
                   /\ QueryValues(r, SlotPath(f[1])) = {f[3]}
                   /\ QueryValues(r, SlotOperator(f[1])) = {<<"=">>}
                   /\ QueryValues(r, SlotValue(f[1])) = {Field(reqs[r].data, f[2]).s}
                   /\ Cardinality(QueryAt(r, SlotOperator(f[1]))) = 1
                   /\ Cardinality(QueryAt(r, SlotValue(f[1]))) = 1
              /\ (IsVariant(r, <<"g", "e", "o", "g", "r", "a", "p", "h", "y", "_", "a", "n", "d", "_", "s", "e", "r", "v", "i", "c", "e">>) /\ HasKey(reqs[r].data, f[2])) =>
                   Emitted(r, f[1])
              /\ (IsVariant(r, <<"p", "r", "o", "v", "i", "d", "e", "r", "_", "a", "n", "d", "_", "s", "e", "r", "v", "i", "c", "e">>)
                    /\ HasKey(reqs[r].data, f[2]) /\ f[1] \in {"filter-1", "filter-4"}) =>
                   Emitted(r, f[1])
         /\ (Emitted(r, "filter-2") \/ Emitted(r, "filter-3")) =>
              IsVariant(r, <<"g", "e", "o", "g", "r", "a", "p", "h", "y", "_", "a", "n", "d", "_", "s", "e", "r", "v", "i", "c", "e">>)
         /\ IsVariant(r, <<"p", "r", "o", "v", "i", "d", "e", "r">>) =>
              ~Emitted(r, "filter-1") /\ ~Emitted(r, "filter-4")
    /\ (reqs[r].url = "cms_search_providers" /\ reqs[r].pc # "idle") => reqs[r].calls = 1

\* A geography search supplied geo_code without hcpcs_code and geo_level:
\* its call has the value in filter-3 and no filter-1.
C21_Witness ==
  \E r \in Reqs :
    /\ ClaimsCall(r)
    /\ IsVariant(r, <<"g", "e", "o", "g", "r", "a", "p", "h", "y", "_", "a", "n", "d", "_", "s", "e", "r", "v", "i", "c", "e">>)
    /\ HasKey(reqs[r].data, "geo_code")
    /\ ~HasKey(reqs[r].data, "hcpcs_code")
    /\ ~HasKey(reqs[r].data, "geo_level")
    /\ QueryValues(r, SlotValue("filter-3")) = {<<"0", "6">>}
    /\ ~Emitted(r, "filter-1")

\* The text a sort object is to be sent as: "-" before the field for desc.
SortText(sort) ==
  (IF Field(sort, "direction") = Str(<<"d", "e", "s", "c">>) THEN <<"-">> ELSE <<>>)
  \o Field(sort, "field").s

\* C22 as stated: sort is sent exactly when a sort object was supplied, as
\* one parameter "-field" for desc and "field" otherwise; keyword is sent
\* exactly when supplied; size and offset are always sent. It fails for a
\* keyword supplied as the empty string, which is not sent.
C22_AsStated ==
  \A r \in Reqs :
    ClaimsCall(r) =>
      /\ Cardinality(QueryAt(r, "sort")) = (IF Field(reqs[r].data, "sort").k = "obj" THEN 1 ELSE 0)
      /\ Field(reqs[r].data, "sort").k = "obj" =>
           QueryValues(r, "sort") = {SortText(Field(reqs[r].data, "sort"))}
      /\ Cardinality(QueryAt(r, "keyword")) = (IF HasKey(reqs[r].data, "keyword") THEN 1 ELSE 0)
      /\ Cardinality(QueryAt(r, "size")) = 1
      /\ Cardinality(QueryAt(r, "offset")) = 1

\* C22 (amended): sort is sent exactly when a sort object was supplied, as
\* one parameter "-field" for desc and "field" otherwise; keyword is sent,
\* with its value, exactly when supplied and not the empty string; size and
\* offset are always sent once.
C22_SortKeyword ==
  \A r \in Reqs :
    ClaimsCall(r) =>
      /\ Cardinality(QueryAt(r, "sort")) = (IF Field(reqs[r].data, "sort").k = "obj" THEN 1 ELSE 0)
      /\ Field(reqs[r].data, "sort").k = "obj" =>
           QueryValues(r, "sort") = {SortText(Field(reqs[r].data, "sort"))}
      /\ Cardinality(QueryAt(r, "keyword")) =
           (IF HasKey(reqs[r].data, "keyword") /\ Field(reqs[r].data, "keyword") # Str(<<>>)
            THEN 1 ELSE 0)
      /\ QueryValues(r, "keyword") \subseteq {Field(reqs[r].data, "keyword").s}
      /\ Cardinality(QueryAt(r, "size")) = 1
      /\ Cardinality(QueryAt(r, "offset")) = 1

\* A claims search sorted by HCPCS_Cd descending with a keyword sent
\* sort=-HCPCS_Cd and the keyword.
C22_Witness ==
  \E r \in Reqs :
    /\ ClaimsCall(r)
    /\ Field(Field(reqs[r].data, "sort"), "direction") = Str(<<"d", "e", "s", "c">>)
    /\ QueryValues(r, "sort") = {<<"-", "H", "C", "P", "C", "S", "_", "C", "d">>}
    /\ QueryValues(r, "keyword") = {<<"x", "1">>}

\* The variant whose dataset a request queried.
DatasetVariant(r) ==
  CASE reqs[r].call.dataset = "ddee9e22-7889-4bef-975a-7853e4cd0fbb" -> "geography_and_service"
    [] reqs[r].call.dataset = "0e9f2f2b-7bf9-451a-912c-e02e654dd725" -> "provider_and_service"
    [] OTHER -> "provider"

\* The variant whose field table produced an item: only the geography table
\* writes geo_level, and the provider table writes no hcpcs_code.
TableVariant(item) ==
  IF "geo_level" \in KeySet(item) THEN "geography_and_service"
  ELSE IF "hcpcs_code" \in KeySet(item) THEN "provider_and_service"
  ELSE "provider"

\* C25: for every dataset_type, also one outside the three names, the
\* dataset queried, the filters emitted and the field table applied belong
\* to one variant. For a name outside the three the code queries the provider
\* dataset, emits the hcpcs_code filter and maps with the
\* provider_and_service table.
C25_OneVariant ==
  \A r \in Reqs :
    ClaimsCall(r) =>
      /\ (Emitted(r, "filter-1") \/ Emitted(r, "filter-4")) => DatasetVariant(r) # "provider"
      /\ (Emitted(r, "filter-2") \/ Emitted(r, "filter-3")) =>
           DatasetVariant(r) = "geography_and_service"
      /\ (Done(r) /\ reqs[r].result.k = "obj") =>
           \A i \in 1..Len(Providers(r)) : TableVariant(Providers(r)[i]) = DatasetVariant(r)

\* The single upstream call of a finished request failed: no connection, a
\* status outside 2xx for the claims search, or a body that is no JSON.
CallFailed(r) ==
  /\ Done(r)
  /\ reqs[r].calls > 0
  /\ \/ reqs[r].reply.net = "error"
     \/ reqs[r].call.api = "cms" /\ reqs[r].reply.status \notin 200..299
     \/ reqs[r].reply.body = BadJson

\* C23: a request causes at most one upstream call; a request awaiting its
\* upstream has issued exactly one, and when that call fails the request is
\* answered with an error without another call.
C23_AtMostOneCall ==
  \A r \in Reqs :
    /\ reqs[r].calls <= 1
    /\ reqs[r].pc = "fetch" => reqs[r].calls = 1
    /\ CallFailed(r) => (reqs[r].resp.kind = "error" /\ reqs[r].calls = 1)

\* A claims search whose upstream answered 500 ended in an error after its
\* one call.
C23_Witness ==
  \E r \in Reqs :
    /\ CallFailed(r)
    /\ reqs[r].call.api = "cms"
    /\ reqs[r].reply.status = 500
    /\ reqs[r].calls = 1
    /\ reqs[r].resp.kind = "error"

(***************************************************************************)
(* SpecRegistry: one tool call to either table search with ef left out or  *)
(* set; the envelope has display rows of any width and an extra-fields map *)
(* that may name a fixed key.                                              *)
(***************************************************************************)
S_Doe == <<"D", "o", "e">>

S_Physician == <<"P", "h", "y", "s", "i", "c", "i", "a", "n">>

S_Main_St == <<"M", "a", "i", "n", " ", "S", "t">>

\* Display rows [npi, name, type, address]: full, cut after the name, with
\* null and empty sub-fields, and null.
WideRows ==
  {Arr(<<Str(S_npi1), Str(S_Doe), Str(S_Physician), Str(S_Main_St)>>),
   Arr(<<Str(S_npi1), Str(S_Doe)>>),
   Arr(<<Str(S_npi1), Null, Str(<<>>)>>),
   Null}

\* Extra-fields maps: none, one that names no fixed key, and maps that name
\* the fixed keys name, npi and code.
NamedExtras ==
  {Null,
   Obj(<<Ent("excludes", Arr(<<Str(S_x1), Str(S_n1)>>))>>),
   Obj(<<Ent("name", Arr(<<Str(S_x1), Str(S_n1)>>))>>),
   Obj(<<Ent("npi", Arr(<<Str(S_x1)>>))>>),
   Obj(<<Ent("code", Arr(<<Str(S_x1), Str(S_n1)>>))>>)}

RegistryReplies ==
  {Reply(200, Arr(<<Num(78), Arr(ids), ex, Arr(rows)>>)) :
     ids \in SeqsUpTo({Str(S_npi1), Str(S_A15_0)}, MaxIds),
     ex \in NamedExtras,
     rows \in SeqsUpTo(WideRows, MaxIds)}

NextRegistry ==
  \/ \E name \in {"nlm_search_icd10", "nlm_search_npi_providers"},
        a \in {Obj(<<Ent("terms", Str(S_tuberc))>>),
               Obj(<<Ent("terms", Str(S_tuberc)), Ent("ef", Str(S_excludes_notes))>>)} :
       CallTool(1, name, a)
  \/ \E reply \in RegistryReplies : CallToolReturn(1, reply)

SpecRegistry == Init /\ [][NextRegistry]_vars

\* Sub-field k (0-based) of the display row of id i (from 1), '' when the
\* row or the sub-field is absent, null or empty.
SubField(r, i, k) ==
  IF EnvRows(r).k = "arr" /\ ElemAt(EnvRows(r).e, i).k = "arr"
     /\ ElemAt(ElemAt(EnvRows(r).e, i).e, k + 1) \notin {Undef, Null}
  THEN ElemAt(ElemAt(EnvRows(r).e, i).e, k + 1)
  ELSE Str(<<>>)

\* Item i of a provider-registry result has the fixed fields the envelope
\* gives for id i.
ProviderFollowsRow(r, i) ==
  /\ Field(ResultItems(r)[i], "npi") = EnvIds(r)[i]
  /\ Field(ResultItems(r)[i], "name") = SubField(r, i, 1)
  /\ Field(ResultItems(r)[i], "type") = SubField(r, i, 2)
  /\ Field(ResultItems(r)[i], "address") = SubField(r, i, 3)

\* C24: for every envelope whose ids is an array the provider-registry
\* search returns {total: envelope[0], providers} with one item per id, in
\* order, npi = ids[i] and name, type, address from rows[i][1..3], '' where
\* the row or the sub-field is absent. With ef set an extra-fields key named
\* npi or name replaces the fixed field (see C29).
C24_ProvidersFollowIds ==
  \A r \in Reqs :
    TableCase(r, "nlm_search_npi_providers") =>
      /\ reqs[r].result.k = "obj"
      /\ ObjKeys(reqs[r].result) = <<"total", "providers">>
      /\ Field(reqs[r].result, "total") = EnvTotal(r)
      /\ Len(ResultItems(r)) = Len(EnvIds(r))
      /\ \A i \in 1..Len(EnvIds(r)) : ProviderFollowsRow(r, i)

\* C29: with ef set, whatever the extra-fields map (one with a key named
\* code, name, npi, type or address included), every item keeps code or
\* npi = ids[i] and the name, type and address of its display row. The
\* mappers assign every extra field onto the item after the fixed ones.
C29_MandatoryUnchanged ==
  \A r \in Reqs :
    (Done(r) /\ reqs[r].result.k = "obj" /\ Truthy(Field(reqs[r].data, "ef"))) =>
      \A i \in 1..Len(ResultItems(r)) :
        IF reqs[r].url = "nlm_search_icd10"
        THEN /\ Field(ResultItems(r)[i], "code") = EnvIds(r)[i]
             /\ Field(ResultItems(r)[i], "name") = EnvName(r, i)
        ELSE ProviderFollowsRow(r, i)


(***************************************************************************)
(* SpecShapes: one request on either transport to any tool; the upstream   *)
(* answers 200 with a body that parses as JSON and has any top-level       *)
(* shape: an object, a string, a number, null or an array.                 *)
(***************************************************************************)
\* An error object, as an upstream may send with status 200.
ErrorBody == Obj(<<Ent("error", Str(S_other))>>)

\* An object whose keys are the positions of an envelope.
KeyedBody == Obj(<<Ent("0", Num(5)), Ent("1", Arr(<<Str(S_A15_0)>>))>>)

ShapeReplies(api) ==
  {Reply(200, b) : b \in {ErrorBody, KeyedBody, Str(S_other), Num(5), Null,
                        Arr(<<>>), Arr(<<Num(0)>>)}}
    \cup (IF api = "cms" THEN {Reply(200, Arr(<<RecordFull>>))} ELSE {Reply(200, StubEnvelope)})

NextShapes ==
  \/ \E tool \in McpToolNames : \E a \in FewArguments(tool) :
       HttpRequest(1, "POST", "/" \o tool, a)
  \/ HttpBodyEnd(1)
  \/ \E reply \in ShapeReplies(reqs[1].call.api) : HttpUpstreamReply(1, reply)
  \/ \E tool \in McpToolNames : \E a \in FewArguments(tool) : CallTool(1, tool, a)
  \/ \E reply \in ShapeReplies(reqs[1].call.api) : CallToolReturn(1, reply)

SpecShapes == Init /\ [][NextShapes]_vars

\* The upstream answered with JSON whose top level is no array.
NoArrayBody(r) ==
  /\ Done(r)
  /\ reqs[r].calls > 0
  /\ reqs[r].reply.net = "ok"
  /\ reqs[r].reply.body.k \notin {"arr", "badjson"}

\* C26: when the upstream body parses as JSON but its top level is no array
\* (an object, a string, a number, null), the request ends in an error on
\* both transports, for every tool; it never ends in a success.
C26_ShapeErrors ==
  \A r \in Reqs : NoArrayBody(r) => reqs[r].resp.kind = "error"


(***************************************************************************)
(* Requests in flight together (Spec: two requests, both transports).      *)
(***************************************************************************)
\* What a request is given: its transport, method, path or tool name,
\* arguments and upstream reply.
InputsOf(r) ==
  <<reqs[r].transport, reqs[r].method, reqs[r].url, reqs[r].data, reqs[r].reply>>

\* The answer the handlers compute from a request's own inputs once its
\* upstream replied.
OwnAnswer(transport, url, data, reply) ==
  IF transport = "mcp"
  THEN McpAnswer(McpSearchResult(url, data, reply))
  ELSE HttpAnswer(HttpSearchResult(url, data, reply))

\* Every finished request carries the answer of its own inputs, and two
\* finished requests with the same inputs carry the same answer.
OwnAnswers ==
  /\ \A r \in Reqs :
       (Done(r) /\ reqs[r].calls > 0) =>
         reqs[r].resp = OwnAnswer(reqs[r].transport, reqs[r].url, reqs[r].data,
                                  reqs[r].reply)
  /\ \A r1, r2 \in Reqs :
       (Done(r1) /\ Done(r2) /\ InputsOf(r1) = InputsOf(r2)) =>
         /\ reqs[r1].resp = reqs[r2].resp
         /\ reqs[r1].result = reqs[r2].result

\* A step changes one request only, and never a finished one.
OneRequestSteps ==
  \A r \in Reqs :
    reqs'[r] # reqs[r] =>
      /\ ~Done(r)
      /\ \A r2 \in Reqs \ {r} : reqs'[r2] = reqs[r2]

\* C27: with two requests in flight and any interleaving of their upstream
\* completions, each finished request's response is the one its own transport,
\* tool, arguments and upstream reply determine, requests with the same
\* inputs get the same response, and every step changes the state of one
\* request only and never that of a finished request.
C27_Independent == []OwnAnswers /\ [][OneRequestSteps]_vars

\* Two searches on different transports and tools were both answered from
\* their upstream replies, with different results.
C27_Witness ==
  /\ Done(1) /\ Done(2)
  /\ reqs[1].calls = 1 /\ reqs[2].calls = 1
  /\ reqs[1].transport = "mcp" /\ reqs[2].transport = "http"
  /\ reqs[1].url = "cms_search_providers" /\ reqs[2].url = "/nlm_search_icd10"
  /\ reqs[1].resp.kind = "result" /\ reqs[2].resp.kind = "result"
  /\ reqs[1].result # reqs[2].result

(***************************************************************************)
(* SpecPair: two requests in flight together, each a diagnosis search on   *)
(* either transport or a tool listing; the upstream answers, answers with  *)
(* no JSON, or is unreachable.                                             *)
(***************************************************************************)
PairArguments == Obj(<<Ent("terms", Str(S_tuberc))>>)

NextPair ==
  \E r \in Reqs :
    \/ HttpRequest(r, "POST", "/nlm_search_icd10", PairArguments)
    \/ HttpBodyEnd(r)
    \/ \E reply \in FewReplies(reqs[r].call.api) : HttpUpstreamReply(r, reply)
    \/ CallTool(r, "nlm_search_icd10", PairArguments)
    \/ \E reply \in FewReplies(reqs[r].call.api) : CallToolReturn(r, reply)
    \/ ListTools(r)

SpecPair == Init /\ [][NextPair]_vars

\* Some upstream reply ends the exchange of request r.
CanSettle(r) ==
  \/ \E reply \in FailedReplies(reqs[r].call.api) : ENABLED HttpUpstreamReply(r, reply)
  \/ \E reply \in FailedReplies(reqs[r].call.api) : ENABLED CallToolReturn(r, reply)

\* Request r can take its next step: be accepted on either transport, have
\* its body routed, or be answered from its upstream reply.
CanProceed(r) ==
  CASE reqs[r].pc = "idle" ->
         /\ ENABLED CallTool(r, "nlm_search_icd10", PairArguments)
         /\ ENABLED HttpRequest(r, "POST", "/nlm_search_icd10",
                                PairArguments)
         /\ ENABLED ListTools(r)
    [] reqs[r].pc = "body" -> ENABLED HttpBodyEnd(r)
    [] reqs[r].pc = "fetch" -> CanSettle(r)
    [] OTHER -> TRUE

\* C28: while a request awaits its upstream, every other request can be
\* accepted, dispatched and answered: none of its steps waits for the
\* suspended request.
C28_NoBlocking ==
  \A r2 \in Reqs :
    (\E r1 \in Reqs \ {r2} : reqs[r1].pc = "fetch") => CanProceed(r2)

\* Request 1 still awaits its upstream while request 2 was dispatched and
\* answered with a result from its own upstream reply.
C28_Witness ==
  /\ reqs[1].pc = "fetch"
  /\ Done(2)
  /\ reqs[2].calls = 1
  /\ reqs[2].resp.kind = "result"


\* The state of an HTTP request and of its response: nothing is written
\* before the request is finished and one response is written when it is; a
\* finished request has a status line and a body, the code of an error body
\* is the status written, and a request that awaits its body or its upstream
\* can take the end of its body or the failure of its upstream.
OneResponse(r) ==
  /\ reqs[r].writes = IF Done(r) THEN 1 ELSE 0
  /\ Done(r) =>
       /\ reqs[r].resp.kind \in {"health", "tools", "result", "error"}
       /\ reqs[r].resp.status \in {200, 400, 404}
       /\ reqs[r].resp.kind = "error" <=> reqs[r].resp.status # 200
       /\ reqs[r].resp.kind = "error" => reqs[r].resp.code = reqs[r].resp.status
  /\ reqs[r].pc = "body" => ENABLED HttpBodyEnd(r)
  /\ reqs[r].pc = "fetch" =>
       \A reply \in FailedReplies(reqs[r].call.api) : ENABLED HttpUpstreamReply(r, reply)

\* The end of the upstream exchange finishes the request, and a finished
\* request is never written to again.
AnsweredOnce(r) ==
  /\ (reqs[r].pc = "fetch" /\ reqs'[r] # reqs[r]) => reqs'[r].pc = "done"
  /\ Done(r) => reqs'[r] = reqs[r]

\* C30: every HTTP request gets exactly one response on every path of the
\* listener (health, list_tools, tool success, body that is no JSON, failure
\* of the handler, unknown path, method other than POST): no response before
\* it is finished, one when it is, never two; once its body has ended and its
\* upstream call completed or failed it is finished; and the code of every
\* error body equals the status written.
C30_ExactlyOneResponse ==
  [](\A r \in Reqs : OneResponse(r)) /\ [][\A r \in Reqs : AnsweredOnce(r)]_vars

\* A claims search over HTTP whose upstream answered 500 got the single
\* response 400 with code 400.
C30_Witness ==
  \E r \in Reqs :
    /\ IsHttp(r) /\ Done(r)
    /\ reqs[r].url = "/cms_search_providers"
    /\ reqs[r].reply.status = 500
    /\ reqs[r].resp.kind = "error"
    /\ reqs[r].resp.status = 400
    /\ reqs[r].resp.code = 400
    /\ reqs[r].writes = 1

====
